---- MODULE Spec2Model ----
(***************************************************************************)
(* BSMarker: the asynchronous spectrogram generation pipeline.             *)
(*                                                                         *)
(* The model follows backend/app/tasks/spectrogram_tasks.py (the Celery    *)
(* task generate_spectrogram_task and the bulk task                        *)
(* regenerate_all_spectrograms), the upload and delete endpoints of        *)
(* backend/app/api/api_v1/endpoints/recordings.py, the Spectrogram and     *)
(* Recording tables of backend/app/models and the queue settings of        *)
(* backend/app/core/celery_app.py.                                         *)
(*                                                                         *)
(* One step of a worker is one blocking operation of the task (a database  *)
(* round trip, an object-store call, the decode, a render) together with   *)
(* the non-blocking statements that follow it.  Every state of the model   *)
(* is therefore a state in which all job-row writes made so far are        *)
(* committed.  The soft time limit is delivered when a blocking operation  *)
(* returns, i.e. between two steps.                                        *)
(***************************************************************************)
EXTENDS Integers, Sequences, FiniteSets, TLC

(* ------------------------------ bounds --------------------------------- *)
MaxRec == 1          \* recordings ever uploaded
NumWorkers == 2      \* worker processes of the pool
MaxEnqueue == 3      \* queue messages ever submitted
AudioSeconds == 2    \* duration of the decoded audio, in seconds

Workers == 1..NumWorkers
RecIds == 1..MaxRec

(* ------------------------- nullable columns ---------------------------- *)
Null == <<>>
Some(v) == <<v>>

VARIABLES
  recordings,   \* ids of the rows of table recordings
  nextRec,      \* next primary key of table recordings
  audio,        \* recording ids whose audio object is in the recordings bucket
  rows,         \* table spectrograms: primary key -> row
  nextRow,      \* next primary key of table spectrograms
  store,        \* object keys present in the spectrograms bucket
  queue,        \* recording id -> number of messages waiting in the queue
  enqueued,     \* number of messages ever submitted
  pc,           \* worker -> position in generate_spectrogram_task
  rid,          \* worker -> recording_id argument of the running task
  existing,     \* worker -> primary key bound to local `existing` (0: None)
  loaded,       \* worker -> <<status, error_message>> loaded for `existing`
  spectrogram,  \* worker -> primary key bound to local `spectrogram` (0: unbound)
  result        \* worker -> how the run ended

vars == <<recordings, nextRec, audio, rows, nextRow, store, queue, enqueued,
          pc, rid, existing, loaded, spectrogram, result>>

queueVars == <<queue, enqueued>>

(* ---- the listing cache (services/cache_service.py) and the HTTP handlers
   that use it (endpoints/recordings.py) ---- *)
VARIABLES
  redisUp,      \* the Redis server answers
  enabled,      \* cache_service.enabled
  redis,        \* key -> value of the keys present in Redis db 1
  project_id,   \* recording id -> Recording.project_id
  completed,    \* recording ids whose job a worker has committed COMPLETED
  hpc,          \* HTTP request slot -> position in its handler
  hloc,         \* HTTP request slot -> locals of the handler
  response      \* HTTP request slot -> last listing response returned

cacheVars == <<redisUp, enabled, redis, project_id, completed, hpc, hloc,
               response>>

(* ---- the object-store client (services/minio_client.py) ---- *)
VARIABLES
  buckets,      \* names of the buckets that exist on the server
  objects,      \* <<bucket, object name>> of the objects stored
  calls,        \* number of upload_file and delete_file calls made so far
  client,       \* generation of the handle in minio_client.client
  mpc,          \* caller -> position in upload_file / delete_file
  mloc          \* caller -> locals of the call

minioVars == <<buckets, objects, calls, client, mpc, mloc>>

(* ---- the status endpoint (endpoints/recordings.py 484-518) ---- *)
VARIABLES
  statusRow,    \* the row the endpoint's query returned (Null: no row)
  statusReply   \* the dict the endpoint returned (Null: not called yet)

statusVars == <<statusRow, statusReply>>

(* ---- columns of the recordings table and the failure report of a run
   (spectrogram_tasks.py 265-279) ---- *)
VARIABLES
  stored_duration, \* recording id -> Recording.duration in the table
  reported      \* the exception text and the job row after a handler of lines
                \* 265-279 wrote the row (Null: no handler has run)

recordVars == <<stored_duration, reported>>

(* ---- the rendering of one decoded buffer (spectrogram_tasks.py 29-89 and
   163-248, services/spectrogram.py 39-79) ---- *)
VARIABLES
  decoded,      \* y, sr as librosa.load returned them: [len, sr] (Null: none)
  render        \* the locals of the rendering and what it has produced

renderVars == <<decoded, render>>

(* the variables the spectrogram pipeline leaves alone *)
serviceVars == <<cacheVars, minioVars, statusVars, recordVars, renderVars>>

(* SpectrogramStatus *)
PENDING == "pending"
PROCESSING == "processing"
COMPLETED == "completed"
FAILED == "failed"
SpectrogramStatus == {PENDING, PROCESSING, COMPLETED, FAILED}

(* str(e) of SoftTimeLimitExceeded handler *)
TimeoutMessage == "Task timeout"

(* positions of a run between its first statement and its return or raise *)
PipelinePcs == {"download", "decode", "thumbnail", "standard", "full"}
RunPcs == {"fetch", "query", "create", "mark", "bind", "finalize", "return"}
            \cup PipelinePcs

(* a key that also carries a number that differs between submissions *)
ArtifactPath_PerSubmission(r, kind) == <<"spectrograms", r, kind, enqueued>>

(* f"spectrograms/{recording_id}/{kind}.png" *)
ArtifactPath(r, kind) == <<"spectrograms", r, kind>>

(* standard_width = min(1600, max(800, int(duration * base_width_per_second))) *)
Min(a, b) == IF a < b THEN a ELSE b
Max(a, b) == IF a > b THEN a ELSE b
StandardWidth(duration) == Min(1600, Max(800, duration * 200))

(* Spectrogram(recording_id=recording_id, status=PROCESSING): every other
   column takes its default, NULL *)
NewSpectrogram(r) ==
  [recording_id |-> r, status |-> PROCESSING, error_message |-> Null,
   processing_time |-> Null, thumbnail_path |-> Null, standard_path |-> Null,
   full_path |-> Null, image_path |-> Null, width |-> Null, height |-> Null]

(* `existing` before the query of line 116, and after the session expired it *)
NotLoaded == [status |-> "none", error_message |-> Null]

(* a run that has neither returned nor raised *)
NoResult == [status |-> "none", paths |-> Null]

RowsOf(r) == {id \in DOMAIN rows : rows[id].recording_id = r}

Init ==
  /\ recordings = {}
  /\ nextRec = 1
  /\ audio = {}
  /\ rows = [id \in {} |-> NewSpectrogram(0)]
  /\ nextRow = 1
  /\ store = {}
  /\ queue = [r \in RecIds |-> 0]
  /\ enqueued = 0
  /\ pc = [w \in Workers |-> "idle"]
  /\ rid = [w \in Workers |-> 0]
  /\ existing = [w \in Workers |-> 0]
  /\ loaded = [w \in Workers |-> NotLoaded]
  /\ spectrogram = [w \in Workers |-> 0]
  /\ result = [w \in Workers |-> NoResult]

(* ------------------------------ HTTP layer ----------------------------- *)

(* upload_recording, recordings.py 128-205: the audio object is stored, the
   Recording row is committed, and only then is the task submitted with
   .delay(); a failing .delay() is logged and swallowed. *)
UploadRecording ==
  /\ UNCHANGED serviceVars
  /\ nextRec <= MaxRec
  /\ recordings' = recordings \cup {nextRec}
  /\ audio' = audio \cup {nextRec}
  /\ nextRec' = nextRec + 1
  /\ \/ /\ enqueued < MaxEnqueue
        /\ queue' = [queue EXCEPT ![nextRec] = @ + 1]
        /\ enqueued' = enqueued + 1
     \/ UNCHANGED queueVars
  /\ UNCHANGED <<rows, nextRow, store, pc, rid, existing, loaded, spectrogram,
                 result>>

(* delete_recording, recordings.py 375-402: delete_file removes the audio
   object (an S3Error is swallowed, minio_client.py 84-90), db.delete cascades
   to the recording's spectrogram rows (models/recording.py 24-26).  The
   objects of the spectrograms bucket are not touched. *)
DeleteRecording(r) ==
  /\ UNCHANGED serviceVars
  /\ r \in recordings
  /\ \/ audio' = audio \ {r}
     \/ audio' = audio
  /\ recordings' = recordings \ {r}
  /\ rows' = [id \in DOMAIN rows \ RowsOf(r) |-> rows[id]]
  /\ UNCHANGED <<nextRec, nextRow, store, queue, enqueued, pc, rid, existing,
                 loaded, spectrogram, result>>

(* regenerate_all_spectrograms, spectrogram_tasks.py 285-331: the recordings
   that have no spectrogram row or a row that is not COMPLETED. *)
NeedsSpectrogram ==
  {r \in recordings :
     \/ RowsOf(r) = {}
     \/ \E id \in RowsOf(r) : rows[id].status # COMPLETED}

(* one .delay() per selected recording; a .delay() that raises is recorded as
   an error and the loop goes on (lines 310-322) *)
RegenerateAll ==
  \E sent \in SUBSET NeedsSpectrogram :
    /\ UNCHANGED serviceVars
    /\ sent # {}
    /\ enqueued + Cardinality(sent) <= MaxEnqueue
    /\ queue' = [r \in RecIds |-> IF r \in sent THEN queue[r] + 1 ELSE queue[r]]
    /\ enqueued' = enqueued + Cardinality(sent)
    /\ UNCHANGED <<recordings, nextRec, audio, rows, nextRow, store, pc, rid,
                   existing, loaded, spectrogram, result>>

(* ------------------------ generate_spectrogram_task -------------------- *)

(* the run of worker w ends: `finally: db.close()`, then the return value or
   the exception goes to the queue runtime *)
EndRun(w, status, paths) ==
  /\ pc' = [pc EXCEPT ![w] = "done"]
  /\ result' = [result EXCEPT ![w] = [status |-> status, paths |-> paths]]
  /\ loaded' = [loaded EXCEPT ![w] = NotLoaded]
  /\ spectrogram' = [spectrogram EXCEPT ![w] = 0]

(* the handlers without their writes: the row is left as the run set it *)
WriteFailed_LeavesProcessing(w, text) == rows' = rows

(* lines 267-270 and 275-278: `if 'spectrogram' in locals():` set FAILED and
   the message, commit.  Nothing is written when `spectrogram` is unbound, nor
   when the row was deleted meanwhile (the commit then raises
   StaleDataError).  The failure report's own commit is taken to succeed. *)
WriteFailed(w, text) ==
  IF spectrogram[w] # 0 /\ spectrogram[w] \in DOMAIN rows
  THEN rows' = [rows EXCEPT ![spectrogram[w]].status = FAILED,
                            ![spectrogram[w]].error_message = Some(text)]
  ELSE rows' = rows

(* the operation that raises at position p: at "create", "mark" and
   "finalize" it is db.commit(), at "fetch" the ValueError of line 113 *)
FailingOperation(p) ==
  IF p \in {"create", "mark", "finalize"} THEN "commit" ELSE p

(* str(e)[:500] of the exception raised at position p *)
ErrorText(p) == FailingOperation(p) \o " failed"

(* `except Exception as e` (lines 273-279) for an exception raised at the
   position of worker w *)
HandleException(w) ==
  /\ WriteFailed(w, ErrorText(pc[w]))
  /\ EndRun(w, "error", Null)

(* a worker takes a message; with task_acks_late the message stays
   unacknowledged while the task runs (celery_app.py 37).  Lines 103-108. *)
TakeMessage(w, r) ==
  /\ UNCHANGED serviceVars
  /\ pc[w] = "idle"
  /\ queue[r] > 0
  /\ queue' = [queue EXCEPT ![r] = @ - 1]
  /\ pc' = [pc EXCEPT ![w] = "fetch"]
  /\ rid' = [rid EXCEPT ![w] = r]
  /\ UNCHANGED <<recordings, nextRec, audio, rows, nextRow, store, enqueued,
                 existing, loaded, spectrogram, result>>

(* lines 112-113 left out: the run goes on without a recording *)
FetchRecording_NoCheck(w) ==
  /\ UNCHANGED serviceVars
  /\ pc[w] = "fetch"
  /\ pc' = [pc EXCEPT ![w] = "query"]
  /\ UNCHANGED <<rows, result, loaded, spectrogram>>
  /\ UNCHANGED <<recordings, nextRec, audio, nextRow, store, queue, enqueued,
                 rid, existing>>

(* lines 111-113: the recording is looked up; ValueError when it is missing *)
FetchRecording(w) ==
  /\ UNCHANGED serviceVars
  /\ pc[w] = "fetch"
  /\ IF rid[w] \in recordings
     THEN /\ pc' = [pc EXCEPT ![w] = "query"]
          /\ UNCHANGED <<rows, result, loaded, spectrogram>>
     ELSE HandleException(w)
  /\ UNCHANGED <<recordings, nextRec, audio, nextRow, store, queue, enqueued,
                 rid, existing>>

(* the check of line 120 testing for the wrong status *)
AlreadyCompleted_WrongStatus(row) == row.status = PROCESSING

(* line 120: the idempotent check of the row the query returned *)
AlreadyCompleted(row) == row.status = COMPLETED

(* the "paths" of the dict a run returns, read from a row *)
PathsOf(row) ==
  [thumbnail |-> row.thumbnail_path, standard |-> row.standard_path,
   full |-> row.full_path]

(* lines 116-130: `.first()` of the rows of the recording; the query has no
   ORDER BY, so with several rows any of them may come back.  A COMPLETED row
   ends the run with "already_exists" and the stored paths. *)
QueryExisting(w) ==
  /\ UNCHANGED serviceVars
  /\ pc[w] = "query"
  /\ IF RowsOf(rid[w]) = {}
     THEN /\ existing' = [existing EXCEPT ![w] = 0]
          /\ pc' = [pc EXCEPT ![w] = "create"]
          /\ UNCHANGED <<loaded, result, spectrogram>>
     ELSE \E id \in RowsOf(rid[w]) :
            /\ existing' = [existing EXCEPT ![w] = id]
            /\ IF AlreadyCompleted(rows[id])
               THEN EndRun(w, "already_exists", PathsOf(rows[id]))
               ELSE /\ pc' = [pc EXCEPT ![w] = "mark"]
                    /\ loaded' = [loaded EXCEPT ![w] =
                         [status |-> rows[id].status,
                          error_message |-> rows[id].error_message]]
                    /\ UNCHANGED <<result, spectrogram>>
  /\ UNCHANGED <<recordings, nextRec, audio, rows, nextRow, store, queue,
                 enqueued, rid>>

(* lines 133-140, `if not existing`: a PROCESSING row is inserted and
   committed, then refreshed; `spectrogram` is bound before the commit.  When
   the commit raises (the foreign key fails if the recording was deleted
   meanwhile) the pending row is rolled back and the handler's commit writes
   nothing. *)
CreateRow(w) ==
  /\ UNCHANGED serviceVars
  /\ pc[w] = "create"
  /\ \/ /\ rid[w] \in recordings
        /\ rows' = [id \in DOMAIN rows \cup {nextRow} |->
                      IF id = nextRow THEN NewSpectrogram(rid[w]) ELSE rows[id]]
        /\ nextRow' = nextRow + 1
        /\ spectrogram' = [spectrogram EXCEPT ![w] = nextRow]
        /\ pc' = [pc EXCEPT ![w] = "download"]
        /\ UNCHANGED <<result, loaded>>
     \/ /\ EndRun(w, "error", Null)
        /\ UNCHANGED <<rows, nextRow>>
  /\ UNCHANGED <<recordings, nextRec, audio, store, queue, enqueued, rid,
                 existing>>

(* line 143 left out *)
MarkedRow_KeepsError(row, was) ==
  [row EXCEPT !.status = IF was.status # PROCESSING THEN PROCESSING ELSE @]

(* lines 142-143 on the loaded row: the unit of work sends only the columns
   whose new value differs from the loaded one *)
MarkedRow(row, was) ==
  [row EXCEPT
     !.status = IF was.status # PROCESSING THEN PROCESSING ELSE @,
     !.error_message = IF was.error_message # Null THEN Null ELSE @]

MarkChanges(was) == was.status # PROCESSING \/ was.error_message # Null

(* lines 141-144, `else`: status PROCESSING, error_message None, commit.
   `spectrogram` is not bound yet: an exception of this commit reaches the
   handlers with 'spectrogram' not in locals(). *)
MarkProcessing(w) ==
  /\ UNCHANGED serviceVars
  /\ pc[w] = "mark"
  /\ \/ /\ MarkChanges(loaded[w]) => existing[w] \in DOMAIN rows
        /\ rows' = IF MarkChanges(loaded[w])
                   THEN [rows EXCEPT ![existing[w]] = MarkedRow(@, loaded[w])]
                   ELSE rows
        /\ pc' = [pc EXCEPT ![w] = "bind"]
        /\ loaded' = [loaded EXCEPT ![w] = NotLoaded]
        /\ UNCHANGED <<result, spectrogram>>
     \/ /\ MarkChanges(loaded[w])
        /\ HandleException(w)
  /\ UNCHANGED <<recordings, nextRec, audio, nextRow, store, queue, enqueued,
                 rid, existing>>

(* line 145: spectrogram = existing *)
BindExisting(w) ==
  /\ UNCHANGED serviceVars
  /\ pc[w] = "bind"
  /\ spectrogram' = [spectrogram EXCEPT ![w] = existing[w]]
  /\ pc' = [pc EXCEPT ![w] = "download"]
  /\ UNCHANGED <<recordings, nextRec, audio, rows, nextRow, store, queue,
                 enqueued, rid, existing, loaded, result>>

(* lines 150-153: minio_client.get_file of the recording's audio *)
DownloadAudio(w) ==
  /\ UNCHANGED serviceVars
  /\ pc[w] = "download"
  /\ rid[w] \in audio
  /\ pc' = [pc EXCEPT ![w] = "decode"]
  /\ UNCHANGED <<recordings, nextRec, audio, rows, nextRow, store, queue,
                 enqueued, rid, existing, loaded, spectrogram, result>>

(* lines 156-165: librosa.load of the temporary file *)
LoadAudio(w) ==
  /\ UNCHANGED serviceVars
  /\ pc[w] = "decode"
  /\ pc' = [pc EXCEPT ![w] = "thumbnail"]
  /\ UNCHANGED <<recordings, nextRec, audio, rows, nextRow, store, queue,
                 enqueued, rid, existing, loaded, spectrogram, result>>

(* the full resolution left out *)
NextStage_SkipFull(p) ==
  CASE p = "thumbnail" -> "standard"
    [] p = "standard" -> "finalize"
    [] p = "full" -> "finalize"

NextStage(p) ==
  CASE p = "thumbnail" -> "standard"
    [] p = "standard" -> "full"
    [] p = "full" -> "finalize"

(* lines 170-186, 188-204, 206-222: one resolution is rendered and put to the
   spectrograms bucket under its key *)
RenderAndUpload(w) ==
  /\ UNCHANGED serviceVars
  /\ pc[w] \in {"thumbnail", "standard", "full"}
  /\ store' = store \cup {ArtifactPath(rid[w], pc[w])}
  /\ pc' = [pc EXCEPT ![w] = NextStage(pc[w])]
  /\ UNCHANGED <<recordings, nextRec, audio, rows, nextRow, queue, enqueued,
                 rid, existing, loaded, spectrogram, result>>

(* the download, the decode, a render or an upload raises: lines 273-279 *)
PipelineFails(w) ==
  /\ UNCHANGED serviceVars
  /\ pc[w] \in PipelinePcs
  /\ HandleException(w)
  /\ UNCHANGED <<recordings, nextRec, audio, nextRow, store, queue, enqueued,
                 rid, existing>>

(* line 227: time.time() - task_start, an opaque positive duration *)
Elapsed == "elapsed"

(* lines 229-236: the columns the successful run sets *)
CompletedRow(row, r) ==
  [row EXCEPT
     !.status = COMPLETED,
     !.thumbnail_path = Some(ArtifactPath(r, "thumbnail")),
     !.standard_path = Some(ArtifactPath(r, "standard")),
     !.full_path = Some(ArtifactPath(r, "full")),
     !.image_path = Some(ArtifactPath(r, "standard")),
     !.width = Some(StandardWidth(AudioSeconds)),
     !.height = Some(400),
     !.processing_time = Some(Elapsed)]

(* lines 224-250: the COMPLETED write and its commit; a commit that raises
   (StaleDataError when the row is gone) rolls back and enters the handler *)
Finalize(w) ==
  /\ UNCHANGED serviceVars
  /\ pc[w] = "finalize"
  /\ \/ /\ spectrogram[w] \in DOMAIN rows
        /\ rows' = [rows EXCEPT ![spectrogram[w]] = CompletedRow(@, rid[w])]
        /\ pc' = [pc EXCEPT ![w] = "return"]
        /\ UNCHANGED <<result, loaded, spectrogram>>
     \/ /\ HandleException(w)
  /\ UNCHANGED <<recordings, nextRec, audio, nextRow, store, queue, enqueued,
                 rid, existing>>

(* lines 252-263: return of the "success" dict *)
ReturnSuccess(w) ==
  /\ UNCHANGED serviceVars
  /\ pc[w] = "return"
  /\ EndRun(w, "success",
            [thumbnail |-> Some(ArtifactPath(rid[w], "thumbnail")),
             standard |-> Some(ArtifactPath(rid[w], "standard")),
             full |-> Some(ArtifactPath(rid[w], "full"))])
  /\ UNCHANGED <<recordings, nextRec, audio, rows, nextRow, store, queue,
                 enqueued, rid, existing>>

(* task_soft_time_limit (celery_app.py 30): SoftTimeLimitExceeded is raised in
   the task when a blocking operation returns; lines 265-271 *)
SoftTimeLimit(w) ==
  /\ UNCHANGED serviceVars
  /\ pc[w] \in RunPcs
  /\ WriteFailed(w, TimeoutMessage)
  /\ EndRun(w, "timeout", Null)
  /\ UNCHANGED <<recordings, nextRec, audio, nextRow, store, queue, enqueued,
                 rid, existing>>

(* ---------------------------- queue runtime ---------------------------- *)

(* the worker slot is free again *)
Release(w) ==
  /\ pc' = [pc EXCEPT ![w] = "idle"]
  /\ rid' = [rid EXCEPT ![w] = 0]
  /\ existing' = [existing EXCEPT ![w] = 0]
  /\ loaded' = [loaded EXCEPT ![w] = NotLoaded]
  /\ spectrogram' = [spectrogram EXCEPT ![w] = 0]
  /\ result' = [result EXCEPT ![w] = NoResult]

(* task_acks_late=True (celery_app.py 37): the message is acknowledged after
   the task returned or raised *)
Acknowledge(w) ==
  /\ UNCHANGED serviceVars
  /\ pc[w] = "done"
  /\ Release(w)
  /\ UNCHANGED <<recordings, nextRec, audio, rows, nextRow, store, queue,
                 enqueued>>

(* task_reject_on_worker_lost=True (celery_app.py 38): the pool process of a
   running task exits abruptly; the message is rejected and requeued *)
WorkerLost(w) ==
  /\ UNCHANGED serviceVars
  /\ pc[w] \in RunPcs
  /\ queue' = [queue EXCEPT ![rid[w]] = @ + 1]
  /\ Release(w)
  /\ UNCHANGED <<recordings, nextRec, audio, rows, nextRow, store, enqueued>>

(* task_time_limit (celery_app.py 29): at the hard limit the pool process is
   killed.  The configuration leaves task_acks_on_failure_or_timeout at its
   default, so a late-acknowledged message is acknowledged when its task
   times out: it is not requeued. *)
HardTimeLimit(w) ==
  /\ UNCHANGED serviceVars
  /\ pc[w] \in RunPcs
  /\ Release(w)
  /\ UNCHANGED <<recordings, nextRec, audio, rows, nextRow, store, queue,
                 enqueued>>

Next ==
  \/ UploadRecording
  \/ RegenerateAll
  \/ \E r \in RecIds : DeleteRecording(r)
  \/ \E w \in Workers, r \in RecIds : TakeMessage(w, r)
  \/ \E w \in Workers : FetchRecording(w)
  \/ \E w \in Workers : QueryExisting(w)
  \/ \E w \in Workers : CreateRow(w)
  \/ \E w \in Workers : MarkProcessing(w)
  \/ \E w \in Workers : BindExisting(w)
  \/ \E w \in Workers : DownloadAudio(w)
  \/ \E w \in Workers : LoadAudio(w)
  \/ \E w \in Workers : RenderAndUpload(w)
  \/ \E w \in Workers : PipelineFails(w)
  \/ \E w \in Workers : Finalize(w)
  \/ \E w \in Workers : ReturnSuccess(w)
  \/ \E w \in Workers : SoftTimeLimit(w)
  \/ \E w \in Workers : Acknowledge(w)
  \/ \E w \in Workers : WorkerLost(w)
  \/ \E w \in Workers : HardTimeLimit(w)

(* the services at rest: what the pipeline's specification holds fixed *)
CacheIdle ==
  /\ redisUp = TRUE
  /\ enabled = TRUE
  /\ redis = [k \in {} |-> {}]
  /\ project_id = [r \in {} |-> 0]
  /\ completed = {}
  /\ hpc = [c \in {} |-> "idle"]
  /\ hloc = [c \in {} |-> 0]
  /\ response = [c \in {} |-> Null]

MinioIdle ==
  /\ buckets = {}
  /\ objects = {}
  /\ calls = 0
  /\ client = 0
  /\ mpc = [c \in {} |-> "idle"]
  /\ mloc = [c \in {} |-> 0]

StatusIdle ==
  /\ statusRow = Null
  /\ statusReply = Null

(* every upload has stored the duration of its audio; no run has failed *)
RecordIdle ==
  /\ stored_duration = [r \in RecIds |-> Some(AudioSeconds)]
  /\ reported = Null

(* no buffer is being rendered *)
RenderIdle == decoded = Null /\ render = Null

(* the pipeline after construction, the services at rest *)
PipelineInit == Init /\ CacheIdle /\ MinioIdle /\ StatusIdle /\ RecordIdle /\ RenderIdle

Spec == PipelineInit /\ [][Next]_<<vars, serviceVars>>

(* ------------------------------- claims -------------------------------- *)

(* C1: every spectrogram row has image_path, width and height non-null if and
   only if its status is COMPLETED. *)
C1_ArtifactIffCompleted ==
  \A id \in DOMAIN rows :
    (rows[id].image_path # Null /\ rows[id].width # Null /\ rows[id].height # Null)
      <=> rows[id].status = COMPLETED

(* C2: every spectrogram row has error_message non-null if and only if its
   status is FAILED. *)
C2_ErrorIffFailed ==
  \A id \in DOMAIN rows :
    rows[id].error_message # Null <=> rows[id].status = FAILED

(* the positions between the PROCESSING write and the terminal write *)
InPipeline(w) == pc[w] \in PipelinePcs \cup {"finalize"}

(* C3: for each recording at most one run is between its PROCESSING write and
   its terminal write. *)
C3_OneRenderPerRecording ==
  \A w1, w2 \in Workers :
    (w1 # w2 /\ InPipeline(w1) /\ InPipeline(w2)) => rid[w1] # rid[w2]

(* C4: a run whose existence check returns a COMPLETED row ends at once with
   "already_exists" and the paths stored in that row, having performed no
   object-store get or put and no row write; the table and the bucket are the
   same before and after the step. *)
C4_CompletedShortCircuit ==
  [][\A w \in Workers :
       (/\ pc[w] = "query"
        /\ pc'[w] # "query"
        /\ existing'[w] \in DOMAIN rows
        /\ rows[existing'[w]].status = COMPLETED)
       => /\ pc'[w] = "done"
          /\ result'[w] = [status |-> "already_exists",
                           paths |-> PathsOf(rows[existing'[w]])]
          /\ rows' = rows
          /\ store' = store]_vars

(* C4 witness: a run has ended with "already_exists" and stored paths *)
C4_Witness ==
  \E w \in Workers :
    /\ pc[w] = "done"
    /\ result[w].status = "already_exists"
    /\ result[w].paths.standard = Some(ArtifactPath(rid[w], "standard"))

(* the job row of the run of worker w: the row it created or looked up
   (0 when it has neither) *)
JobOf(w) == IF spectrogram[w] # 0 THEN spectrogram[w] ELSE existing[w]

(* C5: when a run ends by the soft time limit, its job row is FAILED with the
   timeout message. *)
C5_TimeoutEndsFailed ==
  [][\A w \in Workers :
       (pc[w] \in RunPcs /\ result'[w].status = "timeout"
          /\ JobOf(w) \in DOMAIN rows')
       => /\ rows'[JobOf(w)].status = FAILED
          /\ rows'[JobOf(w)].error_message = Some(TimeoutMessage)]_vars

(* C6: when a run ends by an exception raised inside it, its job row is
   FAILED with the text of that exception. *)
C6_ErrorEndsFailed ==
  [][\A w \in Workers :
       (pc[w] \in RunPcs /\ result'[w].status = "error"
          /\ JobOf(w) \in DOMAIN rows')
       => /\ rows'[JobOf(w)].status = FAILED
          /\ rows'[JobOf(w)].error_message = Some(ErrorText(pc[w]))]_vars

(* C7: a row that is COMPLETED stays COMPLETED as long as it exists. *)
C7_CompletedTerminal ==
  [][\A id \in DOMAIN rows :
       (rows[id].status = COMPLETED /\ id \in DOMAIN rows')
       => rows'[id].status = COMPLETED]_vars

(* C8: there is at most one spectrogram row per recording_id. *)
C8_OneRowPerRecording ==
  \A r \in RecIds : Cardinality(RowsOf(r)) <= 1

(* C9: every step that submits a message for a recording leaves a row for
   that recording, and every row is first created in status PENDING with null
   artifact fields. *)
C9_CreatedPendingOnEnqueue ==
  [][/\ \A r \in RecIds :
          queue'[r] > queue[r] /\ enqueued' > enqueued
          => \E id \in DOMAIN rows' : rows'[id].recording_id = r
     /\ \A id \in DOMAIN rows' \ DOMAIN rows :
          /\ rows'[id].status = PENDING
          /\ rows'[id].image_path = Null]_vars

(* messages of recording r that are waiting or unacknowledged *)
Held(r) == queue[r] + Cardinality({w \in Workers : pc[w] # "idle" /\ rid[w] = r})

(* C10: a message leaves the queue for good only when a run that returned or
   raised is acknowledged; a worker that is lost or killed before that gives
   its message back. *)
C10_AckOnlyAfterRunEnds ==
  [][\A r \in RecIds :
       (queue'[r] + Cardinality({w \in Workers : pc'[w] # "idle" /\ rid'[w] = r})
          < Held(r))
       => \E w \in Workers : pc[w] = "done" /\ rid[w] = r /\ pc'[w] = "idle"]_vars

(* ======================================================================= *)
(* The object-store client's delete, services/minio_client.py 84-90        *)
(* ======================================================================= *)

(* what client.remove_object does: it returns (S3 reports no error for a
   key that does not exist), raises S3Error (e.g. AccessDenied), or raises
   urllib3's MaxRetryError when the server cannot be reached *)
RemoveReplies == {"removed", "no such key", "S3Error", "MaxRetryError"}

(* delete_file answering True whatever remove_object did *)
delete_file_AlwaysTrue(reply) == "True"

(* delete_file: True, False after `except S3Error`, or the exception goes on
   to the caller *)
delete_file(reply) ==
  CASE reply \in {"removed", "no such key"} -> "True"
    [] reply = "S3Error" -> "False"
    [] OTHER -> "raise"

(* ======================================================================= *)
(* The listing cache, services/cache_service.py, and the handlers of       *)
(* endpoints/recordings.py and endpoints/projects.py that read and         *)
(* invalidate it.  The recordings table is the pipeline's.                 *)
(* ======================================================================= *)

NumClients == 2      \* HTTP requests in progress at once
NumProjects == 2     \* projects

Clients == 1..NumClients
Projects == 1..NumProjects

(* the pipeline variables the HTTP handlers of this part leave alone *)
pipelineRest == <<audio, rows, nextRow, store, queue, enqueued, pc, rid,
                  existing, loaded, spectrogram, result>>

(* f"bsmarker:cache:{prefix}:{key_hash}" with prefix "recordings": one key per
   project and combination of listing parameters; one combination is modelled *)
ListingKey(p) == <<"recordings", p>>

(* f"bsmarker:cache:recording:{recording_id}" *)
DetailKey(r) == <<"recording", r>>

(* KEYS "bsmarker:cache:recording*", a pattern without the "s:" *)
MatchesRecordingsPattern_AnyCacheKey(k) == k[1] \in {"recordings", "recording"}

(* KEYS "bsmarker:cache:recordings:*" *)
MatchesRecordingsPattern(k) == k[1] = "recordings"

(* what a command sent to Redis raises when the server is unreachable;
   both are subclasses of redis.exceptions.RedisError *)
RedisFailures == {"ConnectionError", "TimeoutError"}

Reply == IF redisUp THEN {"ok"} ELSE RedisFailures

IsInstance(e, cls) == e = cls \/ (cls = "RedisError" /\ e \in RedisFailures)

Caught(classes, e) == \E cls \in classes : IsInstance(e, cls)

(* the except clauses of get, set, delete and delete_pattern *)
GetCatches_NoRedisError == {"JSONDecodeError"}
GetCatches == {"RedisError", "JSONDecodeError"}
SetCatches == {"RedisError", "TypeError"}
DeleteCatches == {"RedisError"}
DeletePatternCatches == {"RedisError"}

(* CacheService.get: None when disabled, the stored value, None on a caught
   error; an error no clause catches reaches the caller *)
cache_get(key, e) ==
  IF ~enabled THEN [raised |-> FALSE, value |-> Null]
  ELSE IF e = "ok"
       THEN [raised |-> FALSE,
             value |-> IF key \in DOMAIN redis THEN Some(redis[key]) ELSE Null]
       ELSE [raised |-> ~Caught(GetCatches, e), value |-> Null]

(* CacheService.set: setex of the serialized value *)
cache_set(key, value, e) ==
  IF ~enabled THEN [raised |-> FALSE, redis |-> redis]
  ELSE IF e = "ok"
       THEN [raised |-> FALSE,
             redis |-> [k \in DOMAIN redis \cup {key} |->
                          IF k = key THEN value ELSE redis[k]]]
       ELSE [raised |-> ~Caught(SetCatches, e), redis |-> redis]

(* CacheService.delete *)
cache_delete(key, e) ==
  IF ~enabled THEN [raised |-> FALSE, redis |-> redis]
  ELSE IF e = "ok"
       THEN [raised |-> FALSE,
             redis |-> [k \in DOMAIN redis \ {key} |-> redis[k]]]
       ELSE [raised |-> ~Caught(DeleteCatches, e), redis |-> redis]

(* CacheService.delete_pattern: KEYS pattern, then DEL of the keys found *)
cache_delete_pattern(e) ==
  IF ~enabled THEN [raised |-> FALSE, redis |-> redis]
  ELSE IF e = "ok"
       THEN [raised |-> FALSE,
             redis |-> [k \in {j \in DOMAIN redis : ~MatchesRecordingsPattern(j)}
                          |-> redis[k]]]
       ELSE [raised |-> ~Caught(DeletePatternCatches, e), redis |-> redis]

(* the wrappers of lines 183-309 *)
get_project_recordings(p, e) == cache_get(ListingKey(p), e)
set_project_recordings(p, data, e) == cache_set(ListingKey(p), data, e)
invalidate_project_recordings(p, e) == cache_delete_pattern(e)
invalidate_recording(r, e) == cache_delete(DetailKey(r), e)

NoLocals == [p |-> 0, r |-> 0, data |-> {}]

(* CacheService.__init__: enabled is False when the ping of
   _initialize_connection fails *)
CacheInit ==
  /\ Init /\ MinioIdle /\ StatusIdle /\ RecordIdle /\ RenderIdle
  /\ redisUp \in BOOLEAN
  /\ enabled = redisUp
  /\ redis = [k \in {} |-> {}]
  /\ project_id = [r \in {} |-> 0]
  /\ completed = {}
  /\ hpc = [c \in Clients |-> "idle"]
  /\ hloc = [c \in Clients |-> NoLocals]
  /\ response = [c \in Clients |-> Null]

RecordingsOf(p) == {r \in recordings : project_id[r] = p}

(* a handler ends: its locals go away *)
Return(c) ==
  /\ hpc' = [hpc EXCEPT ![c] = "idle"]
  /\ hloc' = [hloc EXCEPT ![c] = NoLocals]

(* an exception of a cache operation leaves the handler: the request fails *)
Raise(c) ==
  /\ hpc' = [hpc EXCEPT ![c] = "raised"]
  /\ hloc' = [hloc EXCEPT ![c] = NoLocals]

(* read_recordings 241-256: the cache is read first; a hit is returned.  A
   cached page is a dict with the keys "items" and "pagination", so it is
   truthy also when it lists no recording. *)
ListGet(c, p) ==
  /\ hpc[c] = "idle"
  /\ \E e \in Reply :
       LET out == get_project_recordings(p, e) IN
         IF out.raised
         THEN Raise(c) /\ UNCHANGED response
         ELSE IF out.value # Null
         THEN /\ response' = [response EXCEPT ![c] =
                                Some([p |-> p, from |-> "cache", items |-> out.value[1]])]
              /\ UNCHANGED <<hpc, hloc>>
         ELSE /\ hpc' = [hpc EXCEPT ![c] = "list_query"]
              /\ hloc' = [hloc EXCEPT ![c] = [NoLocals EXCEPT !.p = p]]
              /\ UNCHANGED response
  /\ UNCHANGED <<redisUp, enabled, redis, project_id, completed, recordings,
                 nextRec, pipelineRest, minioVars, statusVars, recordVars, renderVars>>

(* read_recordings 258-336: the listing is computed from the database *)
ListQuery(c) ==
  /\ hpc[c] = "list_query"
  /\ hpc' = [hpc EXCEPT ![c] = "list_set"]
  /\ hloc' = [hloc EXCEPT ![c].data = RecordingsOf(hloc[c].p)]
  /\ UNCHANGED <<redisUp, enabled, redis, project_id, completed, response,
                 recordings, nextRec, pipelineRest, minioVars, statusVars, recordVars, renderVars>>

(* read_recordings 338-353: the response is cached with ttl=300 and returned *)
ListSet(c) ==
  /\ hpc[c] = "list_set"
  /\ \E e \in Reply :
       LET out == set_project_recordings(hloc[c].p, hloc[c].data, e) IN
         IF out.raised
         THEN Raise(c) /\ UNCHANGED <<redis, response>>
         ELSE /\ redis' = out.redis
              /\ response' = [response EXCEPT ![c] =
                                Some([p |-> hloc[c].p, from |-> "db", items |-> hloc[c].data])]
              /\ Return(c)
  /\ UNCHANGED <<redisUp, enabled, project_id, completed, recordings, nextRec,
                 pipelineRest, minioVars, statusVars, recordVars, renderVars>>

(* upload_recording 181-205: the Recording row is committed and the task
   submitted *)
UploadCommit(c, p) ==
  /\ hpc[c] = "idle"
  /\ nextRec <= MaxRec
  /\ recordings' = recordings \cup {nextRec}
  /\ project_id' = [r \in DOMAIN project_id \cup {nextRec} |->
                      IF r = nextRec THEN p ELSE project_id[r]]
  /\ nextRec' = nextRec + 1
  /\ hpc' = [hpc EXCEPT ![c] = "upload_invalidate"]
  /\ hloc' = [hloc EXCEPT ![c] = [NoLocals EXCEPT !.p = p, !.r = nextRec]]
  /\ UNCHANGED <<redisUp, enabled, redis, completed, response, pipelineRest,
                 minioVars, statusVars, recordVars, renderVars>>

(* upload_recording 207-212 *)
UploadInvalidate(c) ==
  /\ hpc[c] = "upload_invalidate"
  /\ \E e \in Reply :
       LET out == invalidate_project_recordings(hloc[c].p, e) IN
         IF out.raised
         THEN Raise(c) /\ UNCHANGED redis
         ELSE redis' = out.redis /\ Return(c)
  /\ UNCHANGED <<redisUp, enabled, project_id, completed, response, recordings,
                 nextRec, pipelineRest, minioVars, statusVars, recordVars, renderVars>>

(* delete_recording 383-393: the audio object is deleted outside any try *)
DeleteObject(c, r) ==
  /\ hpc[c] = "idle"
  /\ r \in recordings
  /\ \E reply \in RemoveReplies :
       hpc' = [hpc EXCEPT ![c] = IF delete_file(reply) = "raise"
                                 THEN "delete_aborted" ELSE "delete_commit"]
  /\ hloc' = [hloc EXCEPT ![c] = [NoLocals EXCEPT !.p = project_id[r], !.r = r]]
  /\ UNCHANGED <<redisUp, enabled, redis, project_id, completed, response,
                 recordings, nextRec, pipelineRest, minioVars, statusVars, recordVars, renderVars>>

(* the exception of delete_file ends the request: nothing is deleted *)
DeleteAborted(c) ==
  /\ hpc[c] = "delete_aborted"
  /\ Return(c)
  /\ UNCHANGED <<redisUp, enabled, redis, project_id, completed, response,
                 recordings, nextRec, pipelineRest, minioVars, statusVars, recordVars, renderVars>>

(* delete_recording 395-396: db.delete(recording); db.commit() *)
DeleteCommit(c) ==
  /\ hpc[c] = "delete_commit"
  /\ recordings' = recordings \ {hloc[c].r}
  /\ completed' = completed \ {hloc[c].r}
  /\ hpc' = [hpc EXCEPT ![c] = "delete_invalidate"]
  /\ UNCHANGED <<redisUp, enabled, redis, project_id, response, hloc, nextRec,
                 pipelineRest, minioVars, statusVars, recordVars, renderVars>>

(* delete_recording 398-402: invalidate_project_recordings, then
   invalidate_recording *)
DeleteInvalidate(c) ==
  /\ hpc[c] = "delete_invalidate"
  /\ \E e \in Reply :
       LET first == invalidate_project_recordings(hloc[c].p, e)
           second == cache_delete(DetailKey(hloc[c].r), e)
       IN IF first.raised \/ second.raised
          THEN Raise(c) /\ UNCHANGED redis
          ELSE /\ redis' = [k \in DOMAIN first.redis \cap DOMAIN second.redis
                              |-> redis[k]]
               /\ Return(c)
  /\ UNCHANGED <<redisUp, enabled, project_id, completed, response, recordings,
                 nextRec, pipelineRest, minioVars, statusVars, recordVars, renderVars>>

(* bulk_delete_recordings 421-440: every selected recording of the project is
   deleted, `except: pass` around delete_file; the cache is not touched *)
BulkDelete(c, p, ids) ==
  /\ hpc[c] = "idle"
  /\ ids \cap RecordingsOf(p) # {}
  /\ recordings' = recordings \ (ids \cap RecordingsOf(p))
  /\ completed' = completed \ (ids \cap RecordingsOf(p))
  /\ UNCHANGED <<redisUp, enabled, redis, project_id, response, hpc, hloc,
                 nextRec, pipelineRest, minioVars, statusVars, recordVars, renderVars>>

(* delete_project, projects.py 120-152: the recordings of the project go with
   it, `except Exception` around each delete_file; the cache is not touched *)
DeleteProject(c, p) ==
  /\ hpc[c] = "idle"
  /\ RecordingsOf(p) # {}
  /\ recordings' = recordings \ RecordingsOf(p)
  /\ completed' = completed \ RecordingsOf(p)
  /\ UNCHANGED <<redisUp, enabled, redis, project_id, response, hpc, hloc,
                 nextRec, pipelineRest, minioVars, statusVars, recordVars, renderVars>>

(* generate_spectrogram_task 224-263: the COMPLETED row is committed and the
   task returns; the task makes no call to the cache *)
TaskCompleted(r) ==
  /\ r \in recordings \ completed
  /\ completed' = completed \cup {r}
  /\ UNCHANGED <<redisUp, enabled, redis, project_id, response, hpc, hloc,
                 recordings, nextRec, pipelineRest, minioVars, statusVars, recordVars, renderVars>>

(* setex: a key is gone when its ttl has run out *)
Expire(k) ==
  /\ redisUp
  /\ k \in DOMAIN redis
  /\ redis' = [j \in DOMAIN redis \ {k} |-> redis[j]]
  /\ UNCHANGED <<redisUp, enabled, project_id, completed, response, hpc, hloc,
                 recordings, nextRec, pipelineRest, minioVars, statusVars, recordVars, renderVars>>

(* the Redis server becomes unreachable, or reachable again *)
RedisAvailability ==
  /\ redisUp' = ~redisUp
  /\ UNCHANGED <<enabled, redis, project_id, completed, response, hpc, hloc,
                 recordings, nextRec, pipelineRest, minioVars, statusVars, recordVars, renderVars>>

CacheNext ==
  \/ \E c \in Clients, p \in Projects : ListGet(c, p)
  \/ \E c \in Clients : ListQuery(c)
  \/ \E c \in Clients : ListSet(c)
  \/ \E c \in Clients, p \in Projects : UploadCommit(c, p)
  \/ \E c \in Clients : UploadInvalidate(c)
  \/ \E c \in Clients, r \in RecIds : DeleteObject(c, r)
  \/ \E c \in Clients : DeleteAborted(c)
  \/ \E c \in Clients : DeleteCommit(c)
  \/ \E c \in Clients : DeleteInvalidate(c)
  \/ \E c \in Clients, p \in Projects, ids \in SUBSET RecIds : BulkDelete(c, p, ids)
  \/ \E c \in Clients, p \in Projects : DeleteProject(c, p)
  \/ \E r \in RecIds : TaskCompleted(r)
  \/ \E k \in DOMAIN redis : Expire(k)
  \/ RedisAvailability

CacheSpec == CacheInit /\ [][CacheNext]_<<vars, serviceVars>>

(* one request at a time: the handlers above, run by a single client *)
FirstClient == CHOOSE c \in Clients : \A d \in Clients : c <= d

SerialCacheNext ==
  \/ \E p \in Projects : ListGet(FirstClient, p)
  \/ ListQuery(FirstClient)
  \/ ListSet(FirstClient)
  \/ \E p \in Projects : UploadCommit(FirstClient, p)
  \/ UploadInvalidate(FirstClient)
  \/ \E r \in RecIds : DeleteObject(FirstClient, r)
  \/ DeleteAborted(FirstClient)
  \/ DeleteCommit(FirstClient)
  \/ DeleteInvalidate(FirstClient)
  \/ RedisAvailability

SerialCacheSpec == CacheInit /\ [][SerialCacheNext]_<<vars, serviceVars>>

(* ------------------------------- claims -------------------------------- *)

(* the upload of recording r has returned *)
UploadDone(r) ==
  /\ r \in recordings
  /\ \A d \in Clients : ~(hpc[d] = "upload_invalidate" /\ hloc[d].r = r)

(* C11: a listing read of project P that is answered from the cache after the
   upload of a recording to P has returned is answered with a page that
   contains that recording. *)
C11_ReadAfterUploadIsFresh ==
  [][\A c \in Clients :
       (/\ response'[c] # response[c]
        /\ response'[c] # Null
        /\ response'[c][1].from = "cache")
       => \A r \in RecordingsOf(response'[c][1].p) :
            UploadDone(r) => r \in response'[c][1].items]_<<vars, serviceVars>>

(* C12: when an upload, a single delete or a bulk delete in project P returns,
   the cache holds no listing page of P that lacks the uploaded recording or
   lists a deleted one, and no detail entry of a deleted recording. *)
C12_MutationLeavesNoStalePage ==
  [][\A c \in Clients :
       /\ (hpc[c] = "upload_invalidate" /\ hpc'[c] = "idle")
          => (ListingKey(hloc[c].p) \in DOMAIN redis'
                => hloc[c].r \in redis'[ListingKey(hloc[c].p)])
       /\ (hpc[c] = "delete_invalidate" /\ hpc'[c] = "idle")
          => /\ ListingKey(hloc[c].p) \in DOMAIN redis'
                  => hloc[c].r \notin redis'[ListingKey(hloc[c].p)]
             /\ DetailKey(hloc[c].r) \notin DOMAIN redis'
       /\ (hpc' = hpc /\ recordings' # recordings)
          => \A r \in recordings \ recordings' :
               ListingKey(project_id[r]) \in DOMAIN redis'
                 => r \notin redis'[ListingKey(project_id[r])]]_<<vars, serviceVars>>

(* C13: the step that makes a job COMPLETED leaves no cached listing page of
   the recording's project. *)
C13_CompletionInvalidatesListing ==
  [][\A r \in completed' \ completed :
       ListingKey(project_id[r]) \notin DOMAIN redis']_<<vars, serviceVars>>

(* C14: no cache operation raises; with Redis unreachable the cache content
   is left as it is, the cached page is not found, and the listing request is
   answered with the result of the database query. *)
C14_CacheDegradesToMiss ==
  [][\A c \in Clients :
       /\ hpc'[c] # "raised"
       /\ ~redisUp => redis' = redis
       /\ (~redisUp /\ hpc[c] = "idle" /\ hloc'[c] # hloc[c] /\ hloc'[c].r = 0)
          => hpc'[c] = "list_query"
       /\ (~redisUp /\ hpc[c] = "list_set" /\ hpc'[c] # "list_set")
          => response'[c] = Some([p |-> hloc[c].p, from |-> "db",
                                  items |-> hloc[c].data])]_<<vars, serviceVars>>

(* C14 witness: with Redis unreachable and a page of the project in the cache,
   the listing request has gone on to the database *)
C14_Witness ==
  \E c \in Clients :
    /\ ~redisUp /\ enabled
    /\ hpc[c] = "list_set"
    /\ ListingKey(hloc[c].p) \in DOMAIN redis

(* C19: no delete request ends without its database deletion because the
   deletion of the object failed. *)
C19_DeleteNeverBlockedByStore ==
  \A c \in Clients : hpc[c] # "delete_aborted"

(* ======================================================================= *)
(* The object-store client, services/minio_client.py: upload_file with     *)
(* its retry loop and delete_file, called concurrently by request handlers *)
(* and workers on the one shared MinioClient.                              *)
(* ======================================================================= *)

NumCallers == 2      \* calls in progress at once
MaxCalls == 2        \* calls ever started

(* max_retries: int = 3; no caller passes another value *)
DefaultMaxRetries == 3

Callers == 1..NumCallers

(* settings.MINIO_BUCKET_RECORDINGS, settings.MINIO_BUCKET_SPECTROGRAMS *)
BucketNames == {"recordings", "spectrograms"}

(* the object name of the calls: one name per bucket is modelled *)
ObjectKey(b) == <<b, "object">>

(* what bucket_exists, make_bucket and put_object raise: urllib3's
   MaxRetryError and ResponseError when the connection fails, S3Error for an
   error response of the server, anything else *)
Failures == {"MaxRetryError", "ResponseError", "S3Error", "Exception"}

(* the S3Error with which the server refuses to create a bucket that exists *)
BucketAlreadyOwnedByYou == "BucketAlreadyOwnedByYou"

(* every error taken for a connection error *)
Transient_AnyError(e) == TRUE

(* line 49: except (MaxRetryError, ResponseError) *)
Transient(e) == e \in {"MaxRetryError", "ResponseError"}

(* the retry test off by one *)
MayRetry_OffByOne(attempt) == attempt < DefaultMaxRetries

(* line 51: if attempt < max_retries - 1 *)
MayRetry(attempt) == attempt < DefaultMaxRetries - 1

(* 2 ** attempt *)
RECURSIVE Pow2(_)
Pow2(n) == IF n = 0 THEN 1 ELSE 2 * Pow2(n - 1)

NoCall ==
  [op |-> "none", bucket |-> "none", attempt |-> 0, puts |-> 0, handle |-> 0,
   slept |-> 0, error |-> "none", result |-> "none"]

(* MinioClient.__init__: _ensure_buckets tries to create both buckets and
   swallows every error, so either bucket may be missing afterwards *)
MinioInit ==
  /\ Init /\ CacheIdle /\ StatusIdle /\ RecordIdle /\ RenderIdle
  /\ buckets \in SUBSET BucketNames
  /\ objects = {}
  /\ calls = 0
  /\ client = 0
  /\ mpc = [c \in Callers |-> "idle"]
  /\ mloc = [c \in Callers |-> NoCall]

(* upload_file is entered: attempt 0 of `for attempt in range(max_retries)` *)
StartUpload(c, b) ==
  /\ mpc[c] = "idle"
  /\ calls < MaxCalls
  /\ calls' = calls + 1
  /\ mpc' = [mpc EXCEPT ![c] = "exists"]
  /\ mloc' = [mloc EXCEPT ![c] =
                [NoCall EXCEPT !.op = "upload_file", !.bucket = b,
                               !.handle = client]]
  /\ UNCHANGED <<buckets, objects, client, vars, cacheVars, statusVars, recordVars, renderVars>>

(* lines 49-71: the except clauses for an exception e raised in the try *)
Fail(c, e) ==
  /\ mpc' = [mpc EXCEPT ![c] =
               IF Transient(e) /\ MayRetry(mloc[c].attempt)
               THEN "backoff" ELSE "raised"]
  /\ mloc' = [mloc EXCEPT ![c].error = e]

(* line 36: self.client.bucket_exists(bucket_name) *)
BucketExists(c) ==
  /\ mpc[c] = "exists"
  /\ \/ /\ mpc' = [mpc EXCEPT ![c] =
                     IF mloc[c].bucket \in buckets THEN "put" ELSE "make"]
        /\ UNCHANGED mloc
     \/ \E e \in Failures : Fail(c, e)
  /\ UNCHANGED <<buckets, objects, calls, client, vars, cacheVars, statusVars, recordVars, renderVars>>

(* line 37: make_bucket; the server answers BucketAlreadyOwnedByYou, an
   S3Error, when the bucket exists by now *)
MakeBucket(c) ==
  /\ mpc[c] = "make"
  /\ \/ /\ mloc[c].bucket \notin buckets
        /\ buckets' = buckets \cup {mloc[c].bucket}
        /\ mpc' = [mpc EXCEPT ![c] = "put"]
        /\ UNCHANGED mloc
     \/ /\ mloc[c].bucket \in buckets
        /\ Fail(c, BucketAlreadyOwnedByYou)
        /\ UNCHANGED buckets
     \/ /\ \E e \in Failures : Fail(c, e)
        /\ UNCHANGED buckets
  /\ UNCHANGED <<objects, calls, client, vars, cacheVars, statusVars, recordVars, renderVars>>

(* lines 40-48: put_object, then return True *)
PutObject(c) ==
  /\ mpc[c] = "put"
  /\ \/ /\ objects' = objects \cup {ObjectKey(mloc[c].bucket)}
        /\ mpc' = [mpc EXCEPT ![c] = "returned"]
        /\ mloc' = [mloc EXCEPT ![c].puts = @ + 1, ![c].result = "True"]
     \/ /\ \E e \in Failures :
             /\ mpc' = [mpc EXCEPT ![c] =
                          IF Transient(e) /\ MayRetry(mloc[c].attempt)
                          THEN "backoff" ELSE "raised"]
             /\ mloc' = [mloc EXCEPT ![c].puts = @ + 1, ![c].error = e]
        /\ UNCHANGED objects
  /\ UNCHANGED <<buckets, calls, client, vars, cacheVars, statusVars, recordVars, renderVars>>

(* time.sleep(1) in place of line 52 *)
Backoff_FixedSleep(c) ==
  /\ mpc[c] = "backoff"
  /\ \/ client' = client + 1
     \/ client' = client
  /\ mpc' = [mpc EXCEPT ![c] =
               IF mloc[c].attempt + 1 < DefaultMaxRetries
               THEN "exists" ELSE "returned"]
  /\ mloc' = [mloc EXCEPT
                ![c].slept = 1,
                ![c].attempt = @ + 1,
                ![c].handle = client',
                ![c].error = "none",
                ![c].result = IF mloc[c].attempt + 1 < DefaultMaxRetries
                              THEN @ ELSE "None"]
  /\ UNCHANGED <<buckets, objects, calls, vars, cacheVars, statusVars, recordVars, renderVars>>

(* lines 52-63 and the loop header: time.sleep(2 ** attempt), the client is
   constructed anew (a failure of that is printed and the old handle kept),
   the name e is unbound at the end of the except clause, then the next
   attempt starts; a loop that has run out falls off the end of the
   function, which returns None *)
Backoff(c) ==
  /\ mpc[c] = "backoff"
  /\ \/ client' = client + 1
     \/ client' = client
  /\ mpc' = [mpc EXCEPT ![c] =
               IF mloc[c].attempt + 1 < DefaultMaxRetries
               THEN "exists" ELSE "returned"]
  /\ mloc' = [mloc EXCEPT
                ![c].slept = Pow2(mloc[c].attempt),
                ![c].attempt = @ + 1,
                ![c].handle = client',
                ![c].error = "none",
                ![c].result = IF mloc[c].attempt + 1 < DefaultMaxRetries
                              THEN @ ELSE "None"]
  /\ UNCHANGED <<buckets, objects, calls, vars, cacheVars, statusVars, recordVars, renderVars>>

(* delete_file, lines 84-90; its callers pass the key of an object that an
   upload_file stored, so the bucket exists, and the object may be gone *)
DeleteFile(c, b) ==
  /\ mpc[c] = "idle"
  /\ calls < MaxCalls
  /\ b \in buckets
  /\ calls' = calls + 1
  /\ \E reply \in RemoveReplies :
       /\ reply = "removed" => ObjectKey(b) \in objects
       /\ reply = "no such key" => ObjectKey(b) \notin objects
       /\ objects' = IF reply = "removed" THEN objects \ {ObjectKey(b)}
                     ELSE objects
       /\ mpc' = [mpc EXCEPT ![c] = IF delete_file(reply) = "raise"
                                    THEN "raised" ELSE "returned"]
       /\ mloc' = [mloc EXCEPT ![c] =
                     [NoCall EXCEPT !.op = "delete_file", !.bucket = b,
                                    !.handle = client, !.error = reply,
                                    !.result = delete_file(reply)]]
  /\ UNCHANGED <<buckets, client, vars, cacheVars, statusVars, recordVars, renderVars>>

(* the caller has the return value or the exception *)
CallEnds(c) ==
  /\ mpc[c] \in {"returned", "raised"}
  /\ mpc' = [mpc EXCEPT ![c] = "idle"]
  /\ mloc' = [mloc EXCEPT ![c] = NoCall]
  /\ UNCHANGED <<buckets, objects, calls, client, vars, cacheVars, statusVars, recordVars, renderVars>>

MinioNext ==
  \/ \E c \in Callers, b \in BucketNames : StartUpload(c, b)
  \/ \E c \in Callers : BucketExists(c)
  \/ \E c \in Callers : MakeBucket(c)
  \/ \E c \in Callers : PutObject(c)
  \/ \E c \in Callers : Backoff(c)
  \/ \E c \in Callers, b \in BucketNames : DeleteFile(c, b)
  \/ \E c \in Callers : CallEnds(c)

MinioSpec == MinioInit /\ [][MinioNext]_<<vars, serviceVars>>

(* one call at a time *)
FirstCaller == 1

SerialMinioNext ==
  \/ \E b \in BucketNames : StartUpload(FirstCaller, b)
  \/ BucketExists(FirstCaller)
  \/ MakeBucket(FirstCaller)
  \/ PutObject(FirstCaller)
  \/ Backoff(FirstCaller)
  \/ \E b \in BucketNames : DeleteFile(FirstCaller, b)
  \/ CallEnds(FirstCaller)

SerialMinioSpec == MinioInit /\ [][SerialMinioNext]_<<vars, serviceVars>>

(* ----------------------------------------------------------------------- *)
(* C15: upload_file makes at most max_retries (3) attempts and so at most  *)
(* that many puts; it retries a connection failure on every attempt but    *)
(* the last, returns only True and only in the step of a successful put,   *)
(* and a call that ends with a connection error has used up all attempts.  *)
C15_UploadRetriesBounded ==
  [][\A c \in Callers :
       (mloc'[c].op = "upload_file") =>
         /\ mloc'[c].attempt < DefaultMaxRetries
         /\ mloc'[c].puts <= mloc'[c].attempt + 1
         /\ (mpc'[c] = "returned" /\ mpc[c] # "returned") =>
               /\ mpc[c] = "put"
               /\ mloc'[c].result = "True"
               /\ mloc'[c].puts = mloc[c].puts + 1
               /\ ObjectKey(mloc[c].bucket) \in objects'
         /\ (mpc'[c] = "backoff") =>
               /\ mloc'[c].error \in {"MaxRetryError", "ResponseError"}
               /\ mloc'[c].attempt < DefaultMaxRetries - 1
         /\ (mpc'[c] = "raised"
               /\ mloc'[c].error \in {"MaxRetryError", "ResponseError"}) =>
               mloc'[c].attempt = DefaultMaxRetries - 1
         /\ (mpc[c] \in {"exists", "make", "put"}
               /\ mloc'[c].error \in {"MaxRetryError", "ResponseError"}
               /\ mloc[c].attempt < DefaultMaxRetries - 1) =>
               mpc'[c] = "backoff"]_<<vars, serviceVars>>

(* a call has raised the connection error of its third attempt, after three
   failed puts *)
C15_Witness ==
  \E c \in Callers :
    /\ mloc[c].op = "upload_file"
    /\ mpc[c] = "raised"
    /\ mloc[c].error = "MaxRetryError"
    /\ mloc[c].puts = DefaultMaxRetries

(* ----------------------------------------------------------------------- *)
(* C16: an S3Error or any other exception that is not a connection error   *)
(* ends upload_file in the step in which it is raised: the call is not     *)
(* retried, does not sleep, does not construct a new client, and makes no  *)
(* further step but its end.                                               *)
C16_NonTransientNotRetried ==
  [][\A c \in Callers :
       /\ (/\ mloc[c].op = "upload_file"
           /\ mpc[c] \in {"exists", "make", "put"}
           /\ mloc'[c].error \in {"S3Error", "Exception"}) =>
             /\ mpc'[c] = "raised"
             /\ client' = client
             /\ mloc'[c].slept = mloc[c].slept
             /\ mloc'[c].attempt = mloc[c].attempt
             /\ objects' = objects
       /\ (mloc[c].op = "upload_file" /\ mpc[c] = "raised") =>
             /\ mpc'[c] \in {"raised", "idle"}
             /\ mloc'[c].puts \in {mloc[c].puts, 0}]_<<vars, serviceVars>>

(* a first put was refused with an S3Error and the call has raised it *)
C16_Witness ==
  \E c \in Callers :
    /\ mloc[c].op = "upload_file"
    /\ mpc[c] = "raised"
    /\ mloc[c].error = "S3Error"
    /\ mloc[c].puts = 1
    /\ mloc[c].attempt = 0

(* ----------------------------------------------------------------------- *)
(* C17: a bucket created by a concurrent upload_file between this call's   *)
(* bucket_exists and its make_bucket does not fail the call: no call ever  *)
(* raises the server's refusal to create a bucket that already exists.     *)
C17_BucketCreationIdempotent ==
  \A c \in Callers :
    ~(mpc[c] = "raised" /\ mloc[c].error = BucketAlreadyOwnedByYou)

(* ----------------------------------------------------------------------- *)
(* C18: delete_file returns True when the object is not there; for an      *)
(* error response of the server (a permissions failure) it returns False,  *)
(* and a connection failure is raised to the caller: neither is answered   *)
(* with True.                                                              *)
C18_DeleteSurfacesFailures ==
  \A c \in Callers :
    (mloc[c].op = "delete_file") =>
      /\ (mloc[c].error = "no such key") =>
            (mpc[c] = "returned" /\ mloc[c].result = "True")
      /\ (mloc[c].error = "S3Error") =>
            (mpc[c] = "returned" /\ mloc[c].result = "False")
      /\ (mloc[c].error = "MaxRetryError") => mpc[c] = "raised"

(* a delete was refused by the server after an earlier upload stored the
   object, which is still there *)
C18_Witness ==
  \E c \in Callers, b \in BucketNames :
    /\ mloc[c].op = "delete_file"
    /\ mloc[c].bucket = b
    /\ mloc[c].error = "S3Error"
    /\ ObjectKey(b) \in objects

(* ======================================================================= *)
(* The status endpoint, get_spectrogram_status of endpoints/recordings.py, *)
(* applied to the row its query returns.                                   *)
(* ======================================================================= *)

(* the rows of one recording that the table can hold: status is NOT NULL,
   every other column read by the endpoint is nullable whatever the status *)
StatusRows ==
  {[NewSpectrogram(1) EXCEPT !.status = st, !.image_path = ip,
                             !.error_message = em, !.processing_time = pt,
                             !.width = wd, !.height = wd] :
     st \in SpectrogramStatus, ip \in {Null, Some(ArtifactPath(1, "standard"))},
     em \in {Null, Some("error")}, pt \in {Null, Some(1)},
     wd \in {Null, Some(800)}}

(* availability taken from the path alone *)
get_spectrogram_status_PathOnly(row) ==
  IF row = Null
  THEN [status |-> "not_started", available |-> FALSE]
  ELSE [status |-> row.status, available |-> row.image_path # Null,
        error_message |-> row.error_message,
        processing_time |-> row.processing_time,
        width |-> row.width, height |-> row.height]

(* lines 501-518: the dict returned for the first row of the recording, or
   for no row *)
get_spectrogram_status(row) ==
  IF row = Null
  THEN [status |-> "not_started", available |-> FALSE]
  ELSE [status |-> row.status,
        available |-> row.status = COMPLETED /\ row.image_path # Null,
        error_message |-> row.error_message,
        processing_time |-> row.processing_time,
        width |-> row.width, height |-> row.height]

StatusInit ==
  /\ Init /\ CacheIdle /\ MinioIdle /\ RecordIdle /\ RenderIdle
  /\ statusRow \in StatusRows \cup {Null}
  /\ statusReply = Null

(* GET /{recording_id}/spectrogram/status *)
GetStatus ==
  /\ statusReply = Null
  /\ statusReply' = Some(get_spectrogram_status(statusRow))
  /\ UNCHANGED <<statusRow, vars, cacheVars, minioVars, recordVars, renderVars>>

StatusNext == GetStatus

StatusSpec == StatusInit /\ [][StatusNext]_<<vars, serviceVars>>

(* ----------------------------------------------------------------------- *)
(* C20: the status endpoint answers available = true exactly when the row  *)
(* it read is COMPLETED and has image_path set, and never for a FAILED,    *)
(* PROCESSING or PENDING row or when there is no row.                      *)
C20_AvailableIffCompletedWithPath ==
  statusReply # Null =>
    /\ statusReply[1].available <=>
         (/\ statusRow # Null
          /\ statusRow.status = COMPLETED
          /\ statusRow.image_path # Null)
    /\ statusReply[1].status \in {FAILED, PROCESSING, PENDING, "not_started"}
         => ~statusReply[1].available
    /\ statusRow = Null => statusReply[1].status = "not_started"
    /\ statusRow # Null => statusReply[1].status = statusRow.status

(* the answer for a COMPLETED row with its path says available *)
C20_Witness ==
  /\ statusReply # Null
  /\ statusRow # Null
  /\ statusRow.status = COMPLETED
  /\ statusRow.image_path # Null
  /\ statusReply[1].available

(* ======================================================================= *)
(* The pipeline with one worker process: the runs of a recording follow    *)
(* one another.                                                            *)
(* ======================================================================= *)

FirstWorker == CHOOSE w \in Workers : \A v \in Workers : w <= v

SerialNext ==
  \/ UploadRecording
  \/ RegenerateAll
  \/ \E r \in RecIds : DeleteRecording(r)
  \/ \E r \in RecIds : TakeMessage(FirstWorker, r)
  \/ FetchRecording(FirstWorker)
  \/ QueryExisting(FirstWorker)
  \/ CreateRow(FirstWorker)
  \/ MarkProcessing(FirstWorker)
  \/ BindExisting(FirstWorker)
  \/ DownloadAudio(FirstWorker)
  \/ LoadAudio(FirstWorker)
  \/ RenderAndUpload(FirstWorker)
  \/ PipelineFails(FirstWorker)
  \/ Finalize(FirstWorker)
  \/ ReturnSuccess(FirstWorker)
  \/ SoftTimeLimit(FirstWorker)
  \/ Acknowledge(FirstWorker)
  \/ WorkerLost(FirstWorker)
  \/ HardTimeLimit(FirstWorker)

SerialSpec == PipelineInit /\ [][SerialNext]_<<vars, serviceVars>>

(* ----------------------------------------------------------------------- *)
(* C22: an older attempt that finishes late never overwrites the outcome   *)
(* of a newer one.  Run a created the job row; run b found that row, so b  *)
(* made its PROCESSING write after a made its own, and b has committed     *)
(* COMPLETED: no step of a then changes the status of the row.             *)
C22_LatestAttemptDecides ==
  [][\A a, b \in Workers :
       (/\ a # b
        /\ pc[a] \in RunPcs
        /\ existing[a] = 0
        /\ spectrogram[a] # 0
        /\ existing[b] = spectrogram[a]
        /\ pc[b] = "return" \/ (pc[b] = "done" /\ result[b].status = "success")
        /\ pc'[a] # pc[a]
        /\ spectrogram[a] \in DOMAIN rows')
       => rows'[spectrogram[a]].status = rows[spectrogram[a]].status]_vars

(* ----------------------------------------------------------------------- *)
(* C23: regenerate_all_spectrograms submits at most one job per recording, *)
(* only for recordings that have no job row or a job that is not           *)
(* COMPLETED, and never for a recording that has a COMPLETED job.          *)
C23_RegenerateSkipsCompleted ==
  [][\A r \in RecIds :
       (r \in recordings /\ queue'[r] > queue[r] /\ enqueued' > enqueued)
       => /\ queue'[r] = queue[r] + 1
          /\ \A id \in RowsOf(r) : rows[id].status # COMPLETED]_vars

(* ======================================================================= *)
(* The failure report of generate_spectrogram_task, lines 265-279, applied *)
(* to exception texts of any length: the one handler that a run enters.    *)
(* ======================================================================= *)

MaxErrorLen == 502   \* longest exception text

(* the 500 of str(e)[:500] *)
ErrorLimit == 500

(* str(e): texts of every length up to MaxErrorLen *)
ExceptionTexts == {[i \in 1..n |-> "x"] : n \in 0..MaxErrorLen}

(* the text stored whole *)
Truncated_Whole(text) == text

(* str(e)[:500] *)
Truncated(text) == SubSeq(text, 1, Min(Len(text), ErrorLimit))

(* the rows a failing run may be bound to: as created, or already finalized *)
BoundRows == {NewSpectrogram(1), CompletedRow(NewSpectrogram(1), 1)}

(* lines 273-278: `except Exception as e` with `spectrogram` bound *)
ReportException(row, text) ==
  /\ reported = Null
  /\ reported' = [handler |-> "Exception", raised |-> text,
                  row |-> [row EXCEPT !.status = FAILED,
                                      !.error_message = Some(Truncated(text))]]
  /\ UNCHANGED <<stored_duration, vars, cacheVars, minioVars, statusVars,
                 renderVars>>

(* lines 265-270: `except SoftTimeLimitExceeded` with `spectrogram` bound *)
ReportTimeout(row) ==
  /\ reported = Null
  /\ reported' = [handler |-> "SoftTimeLimitExceeded", raised |-> <<>>,
                  row |-> [row EXCEPT !.status = FAILED,
                                      !.error_message = Some(TimeoutMessage)]]
  /\ UNCHANGED <<stored_duration, vars, cacheVars, minioVars, statusVars,
                 renderVars>>

ReportNext ==
  \/ \E row \in BoundRows, text \in ExceptionTexts : ReportException(row, text)
  \/ \E row \in BoundRows : ReportTimeout(row)

ReportSpec == PipelineInit /\ [][ReportNext]_<<vars, serviceVars>>

(* ----------------------------------------------------------------------- *)
(* C24: the error_message a handler stores is at most 500 characters long, *)
(* whatever the length of the exception text, and so is the timeout        *)
(* message.                                                                *)
C24_ErrorMessageBounded ==
  /\ Len(TimeoutMessage) <= ErrorLimit
  /\ reported # Null =>
       /\ reported.row.status = FAILED
       /\ reported.row.error_message # Null
       /\ Len(reported.row.error_message[1]) <= ErrorLimit
       /\ reported.handler = "Exception" =>
            /\ Len(reported.row.error_message[1]) = Min(Len(reported.raised), ErrorLimit)
            /\ \A i \in 1..Len(reported.row.error_message[1]) :
                 reported.row.error_message[1][i] = reported.raised[i]

(* an exception text longer than the limit was stored cut to the limit *)
C24_Witness ==
  /\ reported # Null
  /\ reported.handler = "Exception"
  /\ Len(reported.raised) > ErrorLimit
  /\ Len(reported.row.error_message[1]) = ErrorLimit

(* ======================================================================= *)
(* The pipeline over recordings whose upload could or could not determine  *)
(* the duration of the audio (recordings.py 167-188: duration = None when  *)
(* the analysis fails).                                                    *)
(* ======================================================================= *)

BackfillInit ==
  /\ Init /\ CacheIdle /\ MinioIdle /\ StatusIdle /\ RenderIdle
  /\ stored_duration \in [RecIds -> {Null, Some(AudioSeconds)}]
  /\ reported = Null

BackfillSpec == BackfillInit /\ [][Next]_<<vars, serviceVars>>

(* ----------------------------------------------------------------------- *)
(* C25: when a run that decoded the audio returns "success", the           *)
(* recording's duration is set: a null duration was filled with the        *)
(* duration of the decoded samples, a stored one is unchanged.             *)
C25_DurationBackfilled ==
  [][\A w \in Workers :
       (pc[w] = "return" /\ pc'[w] = "done" /\ rid[w] \in recordings)
       => /\ stored_duration'[rid[w]] # Null
          /\ stored_duration[rid[w]] # Null
               => stored_duration'[rid[w]] = stored_duration[rid[w]]]_<<vars, serviceVars>>

(* ----------------------------------------------------------------------- *)
(* C26: the objects at the thumbnail, standard and full paths of a row are *)
(* in the spectrograms bucket before the step that commits the row as      *)
(* COMPLETED, and in every state in which the row is COMPLETED.            *)
ArtifactsOf(row) ==
  {row.thumbnail_path, row.standard_path, row.full_path}

C26_CompletedAfterArtifactsStored ==
  [][\A id \in DOMAIN rows' :
       rows'[id].status = COMPLETED =>
         /\ \A path \in ArtifactsOf(rows'[id]) :
              path # Null /\ path[1] \in store'
         /\ (id \notin DOMAIN rows \/ rows[id].status # COMPLETED) =>
              \A path \in ArtifactsOf(rows'[id]) : path[1] \in store]_vars

(* a row is COMPLETED and its three objects are in the bucket *)
C26_Witness ==
  \E id \in DOMAIN rows :
    /\ rows[id].status = COMPLETED
    /\ {ArtifactPath(rows[id].recording_id, k) :
          k \in {"thumbnail", "standard", "full"}} \subseteq store
    /\ rows[id].full_path = Some(ArtifactPath(rows[id].recording_id, "full"))

(* ----------------------------------------------------------------------- *)
(* C27: a run whose existence check returned a FAILED row goes on only     *)
(* through the commit that sets the row PROCESSING with error_message      *)
(* null; the download is entered after that commit, from the assignment    *)
(* `spectrogram = existing`, and from nowhere else.                        *)
C27_FailedResetBeforePipeline ==
  [][\A w \in Workers :
       /\ (/\ pc[w] = "mark"
           /\ loaded[w].status = FAILED
           /\ pc'[w] \in RunPcs \ {"mark"})
          => /\ pc'[w] = "bind"
             /\ existing[w] \in DOMAIN rows'
             /\ rows'[existing[w]].status = PROCESSING
             /\ rows'[existing[w]].error_message = Null
       /\ (pc'[w] \in PipelinePcs /\ pc[w] \notin PipelinePcs)
          => /\ pc[w] \in {"create", "bind"}
             /\ pc'[w] = "download"]_vars

(* a run has found its recording's row FAILED with a message and is about to
   reset it *)
C27_Witness ==
  \E w \in Workers :
    /\ pc[w] = "mark"
    /\ loaded[w].status = FAILED
    /\ loaded[w].error_message # Null
    /\ existing[w] \in DOMAIN rows
    /\ rows[existing[w]].status = FAILED
    /\ rows[existing[w]].error_message # Null

(* ----------------------------------------------------------------------- *)
(* C28: when the deletion of a recording has been committed, neither its   *)
(* audio object nor any of its three spectrogram objects is left in the    *)
(* buckets.                                                                *)
C28_DeleteLeavesNoObject ==
  [][\A r \in recordings \ recordings' :
       /\ \A k \in {"thumbnail", "standard", "full"} :
            ArtifactPath(r, k) \notin store'
       /\ r \notin audio']_vars

(* ======================================================================= *)
(* CacheService.invalidate_project_recordings, cache_service.py 256-266,   *)
(* as a function of the cache content: called on any content the two key   *)
(* families can have.                                                      *)
(* ======================================================================= *)

CacheKeys == {ListingKey(p) : p \in Projects} \cup {DetailKey(r) : r \in RecIds}

(* a cache holding any pages and detail entries; the connection up or down,
   the service enabled or not *)
InvalidateInit ==
  /\ Init /\ MinioIdle /\ StatusIdle /\ RecordIdle /\ RenderIdle
  /\ redisUp \in BOOLEAN
  /\ enabled \in BOOLEAN
  /\ redis \in UNION {[K -> SUBSET RecIds] : K \in SUBSET CacheKeys}
  /\ project_id = [r \in {} |-> 0]
  /\ completed = {}
  /\ hpc = [c \in Clients |-> "idle"]
  /\ hloc = [c \in Clients |-> NoLocals]
  /\ response = [c \in Clients |-> Null]

(* a handler reaches its call, recordings.py 208 and 399 *)
InvalidateCall(c, p) ==
  /\ hpc[c] = "idle"
  /\ hpc' = [hpc EXCEPT ![c] = "invalidate"]
  /\ hloc' = [hloc EXCEPT ![c] = [NoLocals EXCEPT !.p = p]]
  /\ UNCHANGED <<redisUp, enabled, redis, project_id, completed, response,
                 recordings, nextRec, pipelineRest, minioVars, statusVars,
                 recordVars, renderVars>>

(* lines 263-266: delete_pattern runs; `deleted` is the number of keys it
   removed (data holds those keys) *)
InvalidateReturn(c) ==
  /\ hpc[c] = "invalidate"
  /\ \E e \in Reply :
       LET out == invalidate_project_recordings(hloc[c].p, e) IN
         IF out.raised
         THEN Raise(c) /\ UNCHANGED redis
         ELSE /\ redis' = out.redis
              /\ hpc' = [hpc EXCEPT ![c] = "invalidated"]
              /\ hloc' = [hloc EXCEPT ![c].data = DOMAIN redis \ DOMAIN out.redis]
  /\ UNCHANGED <<redisUp, enabled, project_id, completed, response, recordings,
                 nextRec, pipelineRest, minioVars, statusVars, recordVars, renderVars>>

(* the calling handler goes on and ends *)
InvalidateDone(c) ==
  /\ hpc[c] = "invalidated"
  /\ Return(c)
  /\ UNCHANGED <<redisUp, enabled, redis, project_id, completed, response,
                 recordings, nextRec, pipelineRest, minioVars, statusVars,
                 recordVars, renderVars>>

InvalidateNext ==
  \/ \E p \in Projects : InvalidateCall(FirstClient, p)
  \/ InvalidateReturn(FirstClient)
  \/ InvalidateDone(FirstClient)
  \/ RedisAvailability

InvalidateSpec == InvalidateInit /\ [][InvalidateNext]_<<vars, serviceVars>>

(* the entries of the keys ks are in the cache after the step as before it *)
Kept(ks) ==
  \A k \in ks \cap DOMAIN redis : k \in DOMAIN redis' /\ redis'[k] = redis[k]

(* C29 as stated: invalidate_project_recordings(P) removes the cached listing
   pages of project P only; the pages of every other project and all
   recording-detail entries are unchanged. *)
C29_OnlyThatProjectsPages ==
  [][\A c \in Clients :
       (hpc[c] = "invalidate" /\ hpc'[c] = "invalidated")
       => /\ (enabled /\ redisUp) => ListingKey(hloc[c].p) \notin DOMAIN redis'
          /\ Kept({ListingKey(q) : q \in Projects \ {hloc[c].p}})
          /\ Kept({DetailKey(r) : r \in RecIds})]_<<vars, serviceVars>>

(* C29, amended: invalidate_project_recordings(P) removes the cached listing
   pages of every project, P's and all others' (none when the cache is
   disabled or Redis cannot be reached), and adds none; all recording-detail
   entries are unchanged. *)
C29_AllListingPagesRemoved ==
  [][\A c \in Clients :
       (hpc[c] = "invalidate" /\ hpc'[c] = "invalidated")
       => /\ IF enabled /\ redisUp
             THEN \A q \in Projects : ListingKey(q) \notin DOMAIN redis'
             ELSE redis' = redis
          /\ DOMAIN redis' \subseteq DOMAIN redis
          /\ Kept({DetailKey(r) : r \in RecIds})]_<<vars, serviceVars>>

(* C29 witness: a call for one project has returned after removing the page
   of another project, with a detail entry still in the cache *)
C29_Witness ==
  \E c \in Clients, q \in Projects, r \in RecIds :
    /\ hpc[c] = "invalidated"
    /\ q # hloc[c].p
    /\ ListingKey(q) \in hloc[c].data
    /\ ListingKey(hloc[c].p) \in hloc[c].data
    /\ DetailKey(r) \in DOMAIN redis

UploadStore_IgnoresFailure(c, p) ==
  /\ hpc[c] = "idle"
  /\ nextRec <= MaxRec
  /\ \/ audio' = audio \cup {nextRec}
     \/ audio' = audio
  /\ hpc' = [hpc EXCEPT ![c] = "upload_row"]
  /\ hloc' = [hloc EXCEPT ![c] = [NoLocals EXCEPT !.p = p]]
  /\ UNCHANGED <<redisUp, enabled, redis, project_id, completed, recordings,
                 nextRec, rows, nextRow, store, queue, enqueued, pc, rid,
                 existing, loaded, spectrogram, result, response, minioVars,
                 statusVars, recordVars, renderVars>>

(* lines 128-164: the audio object is put to the recordings bucket, named by
   the recording it will belong to; any failure of upload_file becomes an
   HTTPException and the request ends before a row exists *)
UploadStore(c, p) ==
  /\ hpc[c] = "idle"
  /\ nextRec <= MaxRec
  /\ \/ /\ audio' = audio \cup {nextRec}
        /\ hpc' = [hpc EXCEPT ![c] = "upload_row"]
        /\ hloc' = [hloc EXCEPT ![c] = [NoLocals EXCEPT !.p = p]]
        /\ UNCHANGED response
     \/ /\ response' = [response EXCEPT ![c] =
                          Some([p |-> p, from |-> "HTTPException", items |-> {}])]
        /\ UNCHANGED <<audio, hpc, hloc>>
  /\ UNCHANGED <<redisUp, enabled, redis, project_id, completed, recordings,
                 nextRec, rows, nextRow, store, queue, enqueued, pc, rid,
                 existing, loaded, spectrogram, result, minioVars, statusVars,
                 recordVars, renderVars>>

(* lines 181-192: db.add(recording); db.commit(); db.refresh(recording) *)
UploadRow(c) ==
  /\ hpc[c] = "upload_row"
  /\ recordings' = recordings \cup {nextRec}
  /\ project_id' = [r \in DOMAIN project_id \cup {nextRec} |->
                      IF r = nextRec THEN hloc[c].p ELSE project_id[r]]
  /\ nextRec' = nextRec + 1
  /\ hpc' = [hpc EXCEPT ![c] = "upload_delay"]
  /\ hloc' = [hloc EXCEPT ![c].r = nextRec]
  /\ UNCHANGED <<redisUp, enabled, redis, completed, response, pipelineRest,
                 minioVars, statusVars, recordVars, renderVars>>

(* .delay(recording.id + 1) *)
DelayArgument_Next(r) == r + 1

(* line 198: the argument of .delay() *)
DelayArgument(r) == r

(* lines 195-205: generate_spectrogram_task.delay(recording.id) publishes one
   message and returns the AsyncResult at once; when it raises (the broker
   cannot be reached) the error is logged and the upload goes on *)
UploadDelay(c) ==
  /\ hpc[c] = "upload_delay"
  /\ \/ /\ queue' = [queue EXCEPT ![DelayArgument(hloc[c].r)] = @ + 1]
        /\ enqueued' = enqueued + 1
        /\ hloc' = [hloc EXCEPT ![c].data = {"queued"}]
     \/ /\ UNCHANGED <<queue, enqueued>>
        /\ hloc' = [hloc EXCEPT ![c].data = {"not queued"}]
  /\ hpc' = [hpc EXCEPT ![c] = "upload_invalidate"]
  /\ UNCHANGED <<redisUp, enabled, redis, project_id, completed, response,
                 recordings, nextRec, audio, rows, nextRow, store, pc, rid,
                 existing, loaded, spectrogram, result, minioVars, statusVars,
                 recordVars, renderVars>>

IntakeNext ==
  \/ \E p \in Projects : UploadStore(FirstClient, p)
  \/ UploadRow(FirstClient)
  \/ UploadDelay(FirstClient)
  \/ UploadInvalidate(FirstClient)
  \/ \E r \in RecIds : TakeMessage(FirstWorker, r)
  \/ FetchRecording(FirstWorker)
  \/ QueryExisting(FirstWorker)
  \/ CreateRow(FirstWorker)
  \/ MarkProcessing(FirstWorker)
  \/ BindExisting(FirstWorker)
  \/ DownloadAudio(FirstWorker)
  \/ LoadAudio(FirstWorker)
  \/ RenderAndUpload(FirstWorker)
  \/ PipelineFails(FirstWorker)
  \/ Finalize(FirstWorker)
  \/ ReturnSuccess(FirstWorker)
  \/ Acknowledge(FirstWorker)
  \/ WorkerLost(FirstWorker)

IntakeSpec == CacheInit /\ [][IntakeNext]_<<vars, serviceVars>>

(* the step in which the upload of client c makes its .delay() call *)
DelayStep(c) == hpc[c] = "upload_delay" /\ hpc'[c] = "upload_invalidate"

(* C21 as stated: every upload that succeeds commits the Recording row and
   then submits exactly one job with that recording's id, without waiting
   for it; no worker receives a job whose Recording row is not committed. *)
C21_ExactlyOneJobPerUpload ==
  [][/\ \A c \in Clients :
          DelayStep(c)
          => /\ hloc[c].r \in recordings
             /\ queue' = [queue EXCEPT ![hloc[c].r] = @ + 1]
             /\ pc' = pc /\ rows' = rows
     /\ \A w \in Workers :
          (pc[w] = "idle" /\ pc'[w] = "fetch") => rid'[w] \in recordings
    ]_<<vars, serviceVars>>

(* C21, amended: every upload that succeeds commits the Recording row and
   then calls .delay() once with that recording's id, without waiting for the
   job: exactly one job is submitted when the call succeeds and none when it
   raises; nothing else of an upload submits a job, and no worker receives a
   job whose Recording row is not committed. *)
C21_CommitThenAtMostOneJob ==
  [][/\ \A c \in Clients :
          DelayStep(c)
          => /\ hloc[c].r \in recordings
             /\ queue' = IF hloc'[c].data = {"queued"}
                         THEN [queue EXCEPT ![hloc[c].r] = @ + 1]
                         ELSE queue
             /\ pc' = pc /\ rows' = rows
     /\ enqueued' # enqueued => \E c \in Clients : DelayStep(c)
     /\ enqueued' <= nextRec' - 1
     /\ \A w \in Workers :
          (pc[w] = "idle" /\ pc'[w] = "fetch") => rid'[w] \in recordings
    ]_<<vars, serviceVars>>

(* C21 witness: the upload has returned while its job is still on the queue
   and no worker has started it *)
C21_Witness ==
  \E r \in recordings :
    /\ \A c \in Clients : hpc[c] = "idle"
    /\ queue[r] = 1
    /\ enqueued = 1
    /\ RowsOf(r) = {}
    /\ \A w \in Workers : pc[w] = "idle"

(* ----------------------------------------------------------------------- *)
(* C31: a run whose recording id has no Recording row when line 111 looks  *)
(* it up never reaches the job query: it ends by raising (or its process   *)
(* is stopped), and the step writes no job row and no object.              *)
C31_MissingRecordingRaises ==
  [][\A w \in Workers :
       (pc[w] = "fetch" /\ rid[w] \notin recordings /\ pc'[w] # "fetch")
       => /\ pc'[w] \in {"done", "idle"}
          /\ pc'[w] = "done" => result'[w].status \in {"error", "timeout"}
          /\ rows' = rows /\ nextRow' = nextRow
          /\ store' = store /\ audio' = audio]_vars

(* C31 witness: a worker has picked up the job of a recording that was
   deleted after the enqueue, and is at the lookup of line 111 *)
C31_Witness ==
  \E w \in Workers :
    /\ pc[w] = "fetch"
    /\ rid[w] \notin recordings
    /\ rid[w] < nextRec

(* ----------------------------------------------------------------------- *)
(* C32: when the audio object of an upload could not be stored, the        *)
(* request ends there with an HTTP error: no Recording row is committed    *)
(* for it, no job is submitted and no cache entry is removed; a row is     *)
(* committed, a job submitted and the cache invalidated only for an upload *)
(* whose audio object is in the bucket.                                    *)
C32_FailedStoreChangesNothing ==
  [][\A c \in Clients :
       /\ (hpc[c] = "idle" /\ <<hpc'[c], response'[c]>> # <<hpc[c], response[c]>>)
          => IF nextRec \in audio'
             THEN hpc'[c] = "upload_row"
             ELSE /\ hpc'[c] = "idle"
                  /\ response'[c] # Null
                  /\ response'[c][1].from = "HTTPException"
                  /\ recordings' = recordings /\ nextRec' = nextRec
                  /\ project_id' = project_id
                  /\ queue' = queue /\ enqueued' = enqueued
                  /\ redis' = redis
       /\ (recordings' \ recordings) \subseteq audio
       /\ (hpc[c] \in {"upload_delay", "upload_invalidate"} /\ hpc'[c] # hpc[c])
          => hloc[c].r \in audio
    ]_<<vars, serviceVars>>

(* C32 witness: an upload has ended with the HTTP error of a failed store;
   there is no object, no row and no job *)
C32_Witness ==
  \E c \in Clients :
    /\ hpc[c] = "idle"
    /\ response[c] # Null
    /\ response[c][1].from = "HTTPException"
    /\ audio = {} /\ recordings = {} /\ nextRec = 1
    /\ enqueued = 0

(* ======================================================================= *)
(* The rendering of generate_spectrogram_task, spectrogram_tasks.py        *)
(* 163-250, as a function of the decoded buffer: the three target widths,  *)
(* the resize of generate_spectrogram_image and the columns of the row.    *)
(* ======================================================================= *)

SampleStep == 100    \* decoded lengths are multiples of this many samples
MaxSteps == 1500     \* the longest buffer, in steps

(* sr of librosa.load(..., sr=None): the file's own rate *)
SampleRates == {8000, 22050, 44100}

Buffers == {[len |-> n * SampleStep, sr |-> s] : n \in 1..MaxSteps, s \in SampleRates}

(* int((len(y) / sr) * k) for a non-negative quotient *)
ScaledInt(n, s, k) == (n * k) \div s

(* line 172: min(800, int(duration * 50)) *)
thumbnail_width(n, s) == Min(800, ScaledInt(n, s, 50))

(* line 190 without its clamp *)
standard_width_Unclamped(n, s) == ScaledInt(n, s, 200)

(* line 190: min(1600, max(800, int(duration * base_width_per_second))) *)
standard_width(n, s) == Min(1600, Max(800, ScaledInt(n, s, 200)))

(* line 208: min(6400, max(1600, int(duration * base_width_per_second * 2))) *)
full_width(n, s) == Min(6400, Max(1600, ScaledInt(n, s, 400)))

(* the target_width and target_height of the calls of lines 173, 191, 209 *)
TargetWidth(kind, n, s) ==
  CASE kind = "thumbnail" -> thumbnail_width(n, s)
    [] kind = "standard" -> standard_width(n, s)
    [] kind = "full" -> full_width(n, s)

TargetHeight(kind) ==
  CASE kind = "thumbnail" -> 200
    [] kind = "standard" -> 400
    [] kind = "full" -> 600

(* the n_fft of the calls of lines 173-177, 191-195, 209-213 *)
NFft(kind) ==
  CASE kind = "thumbnail" -> 1024
    [] kind = "standard" -> 2048
    [] kind = "full" -> 4096

(* librosa.fft_frequencies(sr, n_fft)[k] = k * sr / n_fft for k in
   0..n_fft/2; FreqAtMost(k, s, n, hz) is freqs[k] <= hz *)
FreqAtMost(k, s, n, hz) == k * s <= hz * n

(* line 63, np.where(freqs <= 10000)[0][-1]: the index of the last bin at or
   below 10 kHz (the frequencies increase with the index) *)
max_freq_idx(s, n) ==
  CHOOSE k \in 0..(n \div 2) :
    /\ FreqAtMost(k, s, n, 10000)
    /\ k = n \div 2 \/ ~FreqAtMost(k + 1, s, n, 10000)

(* line 64, S_db[:max_freq_idx, :]: the number of rows kept, bins
   0..max_freq_idx - 1 *)
RowsKept(s, n) == max_freq_idx(s, n)

(* line 83, img.resize((target_width, target_height), LANCZOS): Pillow raises
   ValueError("height and width must be > 0") for a side below 1; otherwise
   the image has exactly the requested size *)
Resize(w, h) ==
  IF w < 1 \/ h < 1
  THEN [raised |-> TRUE, size |-> <<0, 0>>]
  ELSE [raised |-> FALSE, size |-> <<w, h>>]

(* line 163 reached: nothing rendered yet *)
NewRender ==
  [stage |-> "thumbnail", passed |-> [k \in {} |-> 0],
   kept |-> [k \in {} |-> 0],
   images |-> [k \in {} |-> <<0, 0>>], row |-> Null]

RenderInit ==
  /\ Init /\ CacheIdle /\ MinioIdle /\ StatusIdle /\ RecordIdle
  /\ decoded \in Buffers
  /\ render = NewRender

Extended(f, k, v) == [j \in DOMAIN f \cup {k} |-> IF j = k THEN v ELSE f[j]]

(* lines 170-186, 188-204, 206-222: the width is computed, the image is
   rendered at that width (its rows cut at line 64 before the resize of line
   83) and stored under the key of its kind; an exception
   of the render ends the run in the handler *)
RenderImage(kind) ==
  /\ render # Null
  /\ render.stage = kind
  /\ LET w == TargetWidth(kind, decoded.len, decoded.sr)
         img == Resize(w, TargetHeight(kind))
     IN render' =
          IF img.raised
          THEN [render EXCEPT !.stage = "raised",
                              !.passed = Extended(@, kind, w),
                              !.kept = Extended(@, kind, RowsKept(decoded.sr, NFft(kind)))]
          ELSE [render EXCEPT !.stage = NextStage(kind),
                              !.passed = Extended(@, kind, w),
                              !.kept = Extended(@, kind, RowsKept(decoded.sr, NFft(kind))),
                              !.images = Extended(@, kind, img.size)]
  /\ UNCHANGED <<decoded, vars, cacheVars, minioVars, statusVars, recordVars>>

(* lines 229-250: width = standard_width, height = 400, image_path =
   standard_path *)
StoreDimensions ==
  /\ render # Null
  /\ render.stage = "finalize"
  /\ render' = [render EXCEPT
                  !.stage = "completed",
                  !.row = Some([width |-> standard_width(decoded.len, decoded.sr),
                                height |-> 400,
                                image_path |-> "standard"])]
  /\ UNCHANGED <<decoded, vars, cacheVars, minioVars, statusVars, recordVars>>

RenderNext ==
  \/ \E kind \in {"thumbnail", "standard", "full"} : RenderImage(kind)
  \/ StoreDimensions

RenderSpec == RenderInit /\ [][RenderNext]_<<vars, serviceVars>>

(* C33: the width stored on a COMPLETED job is in [800, 3200], the stored
   height is 400, and both are the pixel size of the image stored at the
   job's image path. *)
C33_StoredDimensionsMatchImage ==
  (render # Null /\ render.stage = "completed")
  => LET row == render.row[1] IN
       /\ row.width \in 800..3200
       /\ row.height = 400
       /\ render.images[row.image_path] = <<row.width, row.height>>

(* C33 witness: a job completed with a width that neither clamp produced *)
C33_Witness ==
  /\ render # Null
  /\ render.stage = "completed"
  /\ render.row[1].width \in 801..1599
  /\ render.images["standard"] = <<render.row[1].width, 400>>

(* C34: every width passed to the renderer is at least 1 pixel, and no
   render of a non-empty buffer fails for its width. *)
C34_WidthsAtLeastOne ==
  render # Null
  => /\ \A k \in DOMAIN render.passed : render.passed[k] >= 1
     /\ render.stage # "raised"

(* C35: the rows a render keeps are exactly the STFT bins at or below the
   Nyquist frequency sr / 2, which are all n_fft / 2 + 1 bins: the frequency
   axis reaches Nyquist and never goes above it. *)
C35_AxisCoversNyquist ==
  (render # Null /\ render.stage # "raised")
  => \A k \in DOMAIN render.kept :
       /\ render.kept[k] = NFft(k) \div 2 + 1
       /\ FreqAtMost(render.kept[k] - 1, decoded.sr, NFft(k), decoded.sr \div 2)

(* ======================================================================= *)
(* The min-max normalization of the clamped decibel matrix in the two      *)
(* renderers: generate_spectrogram_image (spectrogram_tasks.py 66-71) and  *)
(* generate_spectrogram (services/spectrogram.py 56-58).                   *)
(* ======================================================================= *)

Pixels == 2          \* entries of the matrix

(* amplitude_to_db(..., ref=np.max): values from -80 dB (top_db) to 0 dB *)
DbLevels == {-80, -40, 0}

Matrices == [1..Pixels -> DbLevels]

RenderPaths == {"task", "service"}

MinOf(m) == CHOOSE v \in {m[i] : i \in DOMAIN m} : \A i \in DOMAIN m : v <= m[i]
MaxOf(m) == CHOOSE v \in {m[i] : i \in DOMAIN m} : \A i \in DOMAIN m : v >= m[i]

(* S_db_norm = S_db_limited - S_db_limited.min() *)
Shifted(m) == [i \in DOMAIN m |-> m[i] - MinOf(m)]

(* (S_db_norm / S_db_norm.max() * 255).astype(np.uint8) for a positive
   maximum: the cast truncates *)
Scaled(n) == [i \in DOMAIN n |-> (n[i] * 255) \div MaxOf(n)]

(* 0.0 / 0.0 is NaN (numpy warns, it does not raise); the cast of NaN to
   uint8 is undefined: any byte *)
CastOfNaN == 0..255

NormalizeInit ==
  /\ Init /\ CacheIdle /\ MinioIdle /\ StatusIdle /\ RecordIdle
  /\ decoded = Null
  /\ render \in {[stage |-> "clamped", path |-> p, matrix |-> m,
                  divided |-> FALSE, image |-> m] :
                   p \in RenderPaths, m \in Matrices}

(* spectrogram_tasks.py 66-71: the division is guarded by
   `if S_db_norm.max() > 0`; otherwise the zero matrix is cast as it is *)
NormalizeTask ==
  /\ render # Null
  /\ render.stage = "clamped" /\ render.path = "task"
  /\ LET n == Shifted(render.matrix) IN
       render' = IF MaxOf(n) > 0
                 THEN [render EXCEPT !.stage = "normalized", !.divided = TRUE,
                                     !.image = Scaled(n)]
                 ELSE [render EXCEPT !.stage = "normalized", !.image = n]
  /\ UNCHANGED <<decoded, vars, cacheVars, minioVars, statusVars, recordVars>>

(* services/spectrogram.py 57-58: the division is made whatever the maximum *)
NormalizeService ==
  /\ render # Null
  /\ render.stage = "clamped" /\ render.path = "service"
  /\ LET n == Shifted(render.matrix) IN
       IF MaxOf(n) > 0
       THEN render' = [render EXCEPT !.stage = "normalized", !.divided = TRUE,
                                     !.image = Scaled(n)]
       ELSE \E v \in CastOfNaN :
              render' = [render EXCEPT !.stage = "normalized", !.divided = TRUE,
                                       !.image = [i \in DOMAIN n |-> v]]
  /\ UNCHANGED <<decoded, vars, cacheVars, minioVars, statusVars, recordVars>>

NormalizeNext == NormalizeTask \/ NormalizeService

NormalizeSpec == NormalizeInit /\ [][NormalizeNext]_<<vars, serviceVars>>

(* C36: in both renderers a matrix of zero range is normalized without the
   division and gives the all-zero image. *)
C36_ZeroRangeSkipsDivision ==
  (/\ render # Null
   /\ render.stage = "normalized"
   /\ MaxOf(render.matrix) = MinOf(render.matrix))
  => /\ ~render.divided
     /\ \A i \in DOMAIN render.image : render.image[i] = 0

(* ----------------------------------------------------------------------- *)
(* C37: whatever runs, failures, retries and redeliveries a recording has  *)
(* had, the spectrograms bucket holds at most three objects of it.         *)
ObjectsOf(r) == {o \in store : o[2] = r}

C37_AtMostThreeObjects ==
  \A r \in RecIds : Cardinality(ObjectsOf(r)) <= 3

(* C37 witness: a second run of a recording has put its thumbnail while the
   three objects of an earlier run are in the bucket: there are still three *)
C37_Witness ==
  \E w \in Workers :
    /\ pc[w] = "standard"
    /\ existing[w] # 0
    /\ Cardinality(ObjectsOf(rid[w])) = 3

(* ----------------------------------------------------------------------- *)
(* C38: after the k-th connection failure of an upload_file call, for k    *)
(* below max_retries, the call sleeps 2^(k-1) seconds, takes a newly       *)
(* constructed client as its handle (or keeps the old one when the         *)
(* construction fails) and starts the next attempt, whose operations use   *)
(* that handle; the failure of the last attempt is raised without a sleep  *)
(* and without a new client.                                               *)
C38_BackoffAndReconnect ==
  [][\A c \in Callers :
       (mloc[c].op = "upload_file") =>
         /\ (mpc[c] = "backoff" /\ mpc'[c] # "backoff") =>
               /\ mloc[c].attempt + 1 < DefaultMaxRetries
               /\ mloc'[c].slept = 2 ^ mloc[c].attempt
               /\ mloc'[c].attempt = mloc[c].attempt + 1
               /\ client' \in {client, client + 1}
               /\ mloc'[c].handle = client'
               /\ mpc'[c] = "exists"
         /\ (mpc[c] \in {"exists", "make", "put"}) =>
               /\ mloc[c].handle = client
               /\ client' = client
               /\ mloc'[c].slept = mloc[c].slept
         /\ (mpc[c] \in {"exists", "make", "put"} /\ mpc'[c] = "raised"
               /\ mloc'[c].error \in {"MaxRetryError", "ResponseError"}) =>
               /\ mloc[c].attempt = DefaultMaxRetries - 1
               /\ mpc[c] = "put" => mloc'[c].puts = mloc[c].puts + 1
    ]_<<vars, serviceVars>>

(* C38 witness: the third attempt of a call is under way after sleeps of 1
   and 2 seconds, on the second newly constructed client *)
C38_Witness ==
  \E c \in Callers :
    /\ mloc[c].op = "upload_file"
    /\ mpc[c] = "put"
    /\ mloc[c].attempt = DefaultMaxRetries - 1
    /\ mloc[c].puts = DefaultMaxRetries - 1
    /\ mloc[c].slept = 2
    /\ client = 2
    /\ mloc[c].handle = client

====
